---- MODULE Spec2Model ----
(***************************************************************************)
(* A model of the CPU shader viewer (src/main.cc): the shader loading      *)
(* pipeline with its fallback, the interactive frame loop with file drop,  *)
(* hot reload and the event queue, the benchmark command interpreter with  *)
(* its statistics history, and the tiled dispatch of a compiled shader     *)
(* over a framebuffer.                                                     *)
(***************************************************************************)
EXTENDS Integers, Sequences, FiniteSets, TLC

(***************************************************************************)
(* Bounds of the model.                                                    *)
(***************************************************************************)
\* Largest modification timestamp a watched file takes.
MaxTime == 2

\* Longest command list a benchmark reads.
MaxLines == 3

NULL == "null"

(***************************************************************************)
(* The file system, as the program sees it through SDL_GetPathInfo and     *)
(* fopen/fread: a file is missing, present but unreadable, or holds a      *)
(* shader text that is Slang, GLSL, or does not compile.                   *)
(***************************************************************************)
Paths == {"a.slang", "b.glsl"}

FileKinds == {"missing", "unreadable", "slang", "glsl", "bad"}

\* SDL_GetPathInfo(path, &info): fails on the empty path and on a missing file.
PathInfoOk(fs, path) == path \in Paths /\ fs[path].kind # "missing"

\* readTextFile: panics unless the file can be opened and read in full.
ReadTextFileOk(fs, path) == path \in Paths /\ fs[path].kind \in {"slang", "glsl", "bad"}

\* std::filesystem::path(path).extension()
Extension(path) ==
    CASE path = "a.slang" -> ".slang"
      [] path = "b.glsl" -> ".glsl"
      [] path = "bad.slang" -> ".slang"
      [] path = "missing.glsl" -> ".glsl"
      [] OTHER -> ""

isPathToGLSL(path) == Extension(path) = ".glsl"

(***************************************************************************)
(* The compiler pipeline.  The compiler service is external: a Slang text  *)
(* compiles under either front end, a GLSL text only with the GLSL front   *)
(* end allowed, a broken text never.  A callable is named by the source it *)
(* was compiled from.                                                      *)
(***************************************************************************)
CompilerAccepts(kind, allowGLSL) ==
    \/ kind = "slang"
    \/ kind = "glsl" /\ allowGLSL

\* loadShaderFromSource: entryPointFunc is reset to nullptr first and is set
\* only when every stage succeeds; the flag returned says which.
loadShaderFromSource(source, kind, allowGLSL) ==
    IF CompilerAccepts(kind, allowGLSL)
    THEN [status |-> TRUE, func |-> source]
    ELSE [status |-> FALSE, func |-> NULL]

\* The built-in source of loadShader: GLSL (vec4, out/in parameters).
fallbackSource == [name |-> "fallback", kind |-> "glsl"]

\* Mutation of loadShader: the requested shader's failure is returned as is.
loadShaderNoFallback(fs, path, current) ==
    IF path = NULL
    THEN [panic |-> FALSE, status |-> FALSE, func |-> current]
    ELSE IF ~ReadTextFileOk(fs, path)
    THEN [panic |-> TRUE, status |-> FALSE, func |-> current]
    ELSE LET r == loadShaderFromSource(path, fs[path].kind, isPathToGLSL(path))
         IN  [panic |-> FALSE, status |-> r.status, func |-> r.func]

\* loadShader with the callable of before left in place when the requested
\* shader fails to build.
loadShaderKeepsPrevious(fs, path, current) ==
    IF path # NULL /\ ~ReadTextFileOk(fs, path)
    THEN [panic |-> TRUE, status |-> FALSE, func |-> current]
    ELSE IF path = NULL
    THEN [panic |-> FALSE, status |-> FALSE, func |-> fallbackSource.name]
    ELSE LET r == loadShaderFromSource(path, fs[path].kind, isPathToGLSL(path))
         IN  IF r.status
             THEN [panic |-> FALSE, status |-> TRUE, func |-> r.func]
             ELSE [panic |-> FALSE, status |-> FALSE, func |-> current]

\* loadShader(res, path): the result flag, the callable left in
\* res.entryPointFunc, and whether readTextFile panicked (then nothing was
\* compiled and the callable is still `current`).
loadShader(fs, path, current) ==
    IF path # NULL /\ ~ReadTextFileOk(fs, path)
    THEN [panic |-> TRUE, status |-> FALSE, func |-> current]
    ELSE LET r == IF path = NULL
                  THEN [status |-> FALSE, func |-> current]
                  ELSE loadShaderFromSource(path, fs[path].kind, isPathToGLSL(path))
         IN  IF r.status
             THEN [panic |-> FALSE, status |-> TRUE, func |-> r.func]
             ELSE [panic |-> FALSE, status |-> FALSE,
                   func |-> loadShaderFromSource(fallbackSource.name,
                                                 fallbackSource.kind, TRUE).func]

(***************************************************************************)
(* State.                                                                  *)
(***************************************************************************)
VARIABLES
    mode,              \* main: "interactive" (no argument) or "benchmark"
    pc,                \* position of the control thread
    exitReason,        \* which panic ended the process, "none" while it runs
    files,             \* the file system
    surf,              \* res.surf: the window surface's size
    entryPointFunc,    \* res.entryPointFunc: NULL or the source it was built from
    lastLoad,          \* what the step just taken asked of the compiler pipeline
    dispatched,        \* the callable the last tile dispatch invoked
    presented,         \* the callable whose frame is on the window surface
    pitch,             \* res.constants->pitch
    pixelDataSize,     \* res.globalParams.pixelDataSize
    framebuffer,       \* the pixels: for each index the color stored
    written,           \* the indices the tiles of the dispatch have stored to
    collisions,        \* the indices that two different tiles have stored to
    invocations,       \* the tiles the callable was invoked for, with the count
    pendingTiles,      \* renderFrameMultithread: the iterations not yet run
    tileX,             \* renderFrameSinglethread: x of the loops
    tileY,             \* renderFrameSinglethread: y of the loops
    activeShaderPath,  \* interactiveMain: "" when none
    shaderModifyTime,  \* interactiveMain: uninitialized until a drop succeeds
    valid,             \* interactiveMain
    logged,            \* interactiveMain: the frame printed its delta time
    events,            \* SDL: the events queued and not yet polled
    commandList,       \* benchmarkMain: the lines std::getline has read so far
    stats,             \* benchmarkMain: Stats::runs
    forcedDeltaTime,   \* benchmarkMain
    multithreaded,     \* benchmarkMain
    run,               \* benchmarkRenderMain: the RunStats being recorded
    frameCount,        \* benchmarkRenderMain: the parameter
    paramsFrame,       \* res.constants->frame during a run
    cumulatedTicks,    \* benchmarkRenderMain
    paramsTime,        \* res.constants->time during a run, in ticks
    output             \* benchmarkMain: the lines printed by print

sysVars == <<mode, pc, exitReason, files, surf, entryPointFunc, lastLoad,
             dispatched, presented, pitch, pixelDataSize>>

tileVars == <<framebuffer, written, collisions, invocations, pendingTiles, tileX,
              tileY>>

interactiveVars == <<activeShaderPath, shaderModifyTime, valid, logged, events>>

benchmarkVars == <<commandList, stats, forcedDeltaTime, multithreaded, run,
                   frameCount, paramsFrame, cumulatedTicks, paramsTime, output>>

vars == <<sysVars, tileVars, interactiveVars, benchmarkVars>>

NoLoad == [kind |-> "none", path |-> NULL, time |-> 0, status |-> "none"]

Load(kind, path, time, r) ==
    [kind |-> kind, path |-> path, time |-> time,
     status |-> IF r.panic THEN "panic" ELSE IF r.status THEN "ok" ELSE "failed"]

\* panic(): print and exit(1).
Panic(reason) == pc' = "exited" /\ exitReason' = reason

(***************************************************************************)
(* Numbers.  A double read by strtod is kept in tenths (one decimal digit);*)
(* a duration is kept in clock ticks; a statistic is the real number       *)
(* (n/d)^(1/k), or not a number.                                           *)
(***************************************************************************)
Abs(x) == IF x < 0 THEN -x ELSE x

RECURSIVE GCD(_, _)
GCD(a, b) == IF b = 0 THEN a ELSE GCD(b, a % b)

NaN == [tag |-> "nan", n |-> 0, d |-> 0, k |-> 1]

Irrational == [tag |-> "irrational", n |-> 0, d |-> 0, k |-> 1]

\* n/d in lowest terms; 0/0 is not a number.
Rat(n, d) ==
    IF d = 0 THEN NaN
    ELSE LET g == GCD(Abs(n), Abs(d))
             sgn == IF d < 0 THEN -1 ELSE 1
         IN  [tag |-> "rat", n |-> sgn * (n \div g), d |-> sgn * (d \div g), k |-> 1]

Zero == Rat(0, 1)

IsRat(v) == v.tag = "rat" /\ v.k = 1

Add(a, b) ==
    IF a.tag = "nan" \/ b.tag = "nan" THEN NaN
    ELSE IF ~IsRat(a) \/ ~IsRat(b) THEN Irrational
    ELSE Rat(a.n * b.d + b.n * a.d, a.d * b.d)

Mul(a, b) ==
    IF a.tag = "nan" \/ b.tag = "nan" THEN NaN
    ELSE IF ~IsRat(a) \/ ~IsRat(b) THEN Irrational
    ELSE Rat(a.n * b.n, a.d * b.d)

Neg(a) == IF IsRat(a) THEN Rat(-a.n, a.d) ELSE a

\* a / b; x/0 for x # 0 does not occur on the durations of the model.
Div(a, b) ==
    IF a.tag = "nan" \/ b.tag = "nan" THEN NaN
    ELSE IF ~IsRat(a) \/ ~IsRat(b) THEN Irrational
    ELSE Rat(a.n * b.d, a.d * b.n)

Less(a, b) == a.n * b.d < b.n * a.d

RECURSIVE Pow(_, _)
Pow(b, e) == IF e = 0 THEN 1 ELSE b * Pow(b, e - 1)

HasRoot(n, k) == \E r \in 0..n : Pow(r, k) = n

IntRoot(n, k) == CHOOSE r \in 0..n : Pow(r, k) = n

\* a^(1/k) for a rational a >= 0: rational when both terms are k-th powers.
Root(a, k) ==
    IF a.tag = "nan" THEN NaN
    ELSE IF ~IsRat(a) \/ a.n < 0 THEN Irrational
    ELSE IF HasRoot(a.n, k) /\ HasRoot(a.d, k)
         THEN Rat(IntRoot(a.n, k), IntRoot(a.d, k))
         ELSE [tag |-> "rat", n |-> a.n, d |-> a.d, k |-> k]

(***************************************************************************)
(* The statistics engine: the cumulations, collect and Stats::getStat.     *)
(***************************************************************************)
RECURSIVE SumFrom(_, _)
SumFrom(vals, i) == IF i > Len(vals) THEN Zero ELSE Add(vals[i], SumFrom(vals, i + 1))

sum(vals) == SumFrom(vals, 1)

mean(vals) == IF Len(vals) = 0 THEN Zero ELSE Div(sum(vals), Rat(Len(vals), 1))

RECURSIVE MinFrom(_, _, _)
MinFrom(vals, i, s) ==
    IF i > Len(vals) THEN s
    ELSE MinFrom(vals, i + 1, IF Less(vals[i], s) THEN vals[i] ELSE s)

min(vals) == IF Len(vals) = 0 THEN Zero ELSE MinFrom(vals, 1, vals[1])

RECURSIVE MaxFrom(_, _, _)
MaxFrom(vals, i, s) ==
    IF i > Len(vals) THEN s
    ELSE MaxFrom(vals, i + 1, IF Less(s, vals[i]) THEN vals[i] ELSE s)

max(vals) == IF Len(vals) = 0 THEN Zero ELSE MaxFrom(vals, 1, vals[1])

\* std::sort: the ascending arrangement of vals.
RECURSIVE Insert(_, _)
Insert(sorted, v) ==
    IF sorted = <<>> THEN <<v>>
    ELSE IF Less(v, Head(sorted)) THEN <<v>> \o sorted
    ELSE <<Head(sorted)>> \o Insert(Tail(sorted), v)

RECURSIVE SortFrom(_, _)
SortFrom(vals, i) ==
    IF i > Len(vals) THEN <<>> ELSE Insert(SortFrom(vals, i + 1), vals[i])

Sort(vals) == SortFrom(vals, 1)

\* The lower-middle element of the sorted copy.
medianLowerMiddle(vals) ==
    IF Len(vals) = 0 THEN Zero ELSE Sort(vals)[((Len(vals) - 1) \div 2) + 1]

\* v[v.size()/2] of the sorted copy, 0-based.
median(vals) ==
    IF Len(vals) = 0 THEN Zero ELSE Sort(vals)[(Len(vals) \div 2) + 1]

RECURSIVE ProductFrom(_, _)
ProductFrom(vals, i) ==
    IF i > Len(vals) THEN Rat(1, 1) ELSE Mul(vals[i], ProductFrom(vals, i + 1))

geomean(vals) ==
    IF Len(vals) = 0 THEN Zero ELSE Root(ProductFrom(vals, 1), Len(vals))

RECURSIVE ReciprocalSumFrom(_, _)
ReciprocalSumFrom(vals, i) ==
    IF i > Len(vals) THEN Zero
    ELSE Add(Div(Rat(1, 1), vals[i]), ReciprocalSumFrom(vals, i + 1))

harmonicMean(vals) ==
    IF Len(vals) = 0 THEN Zero
    ELSE Div(Rat(Len(vals), 1), ReciprocalSumFrom(vals, 1))

RECURSIVE SquaredDeviationFrom(_, _, _)
SquaredDeviationFrom(vals, i, m) ==
    IF i > Len(vals) THEN Zero
    ELSE Add(Mul(Add(m, Neg(vals[i])), Add(m, Neg(vals[i]))),
             SquaredDeviationFrom(vals, i + 1, m))

\* No guard for the empty sequence: s / vals.size() is then 0/0.
variance(vals) ==
    LET m == mean(vals)
        s == SquaredDeviationFrom(vals, 1, m)
    IN  Div(s, Rat(Len(vals), 1))

Cumulations ==
    {"sum", "mean", "min", "max", "median", "geomean", "harmonic-mean",
     "variance", "stddev"}

\* collect(vals, cumulative): the value, or the panic on an unknown name.
collect(vals, cumulative) ==
    CASE cumulative = NULL ->
            [panic |-> "none", value |-> IF Len(vals) = 0 THEN Zero ELSE vals[Len(vals)]]
      [] cumulative = "sum" -> [panic |-> "none", value |-> sum(vals)]
      [] cumulative = "mean" -> [panic |-> "none", value |-> mean(vals)]
      [] cumulative = "min" -> [panic |-> "none", value |-> min(vals)]
      [] cumulative = "max" -> [panic |-> "none", value |-> max(vals)]
      [] cumulative = "median" -> [panic |-> "none", value |-> median(vals)]
      [] cumulative = "geomean" -> [panic |-> "none", value |-> geomean(vals)]
      [] cumulative = "harmonic-mean" -> [panic |-> "none", value |-> harmonicMean(vals)]
      [] cumulative = "variance" -> [panic |-> "none", value |-> variance(vals)]
      [] cumulative = "stddev" -> [panic |-> "none", value |-> Root(variance(vals), 2)]
      [] OTHER -> [panic |-> "cumulation", value |-> Zero]

\* A RunStats: the build duration and the per-frame durations, in ticks.
RunStats(buildTime, frames) == [buildTime |-> buildTime, frames |-> frames]

\* The durations of a RunStats as the float values the cumulations read.
Floats(seq) == [i \in 1..Len(seq) |-> Rat(seq[i], 1)]

\* The first panic of a sequence of collect results, "none" when there is none.
RECURSIVE FirstPanic(_, _)
FirstPanic(results, i) ==
    IF i > Len(results) THEN "none"
    ELSE IF results[i].panic # "none" THEN results[i].panic
    ELSE FirstPanic(results, i + 1)

\* getStat with the tokens left over before the outer cumulation ignored.
getStatExtraIgnored(runs, specifiers) ==
    IF Len(specifiers) = 0 THEN [panic |-> "novariable", value |-> Zero]
    ELSE
    LET var == specifiers[Len(specifiers)]
        rest == SubSeq(specifiers, 1, Len(specifiers) - 1)
    IN  IF var = "build-time"
        THEN collect(Floats([i \in 1..Len(runs) |-> runs[i].buildTime]),
                     IF Len(rest) = 0 THEN NULL ELSE rest[Len(rest)])
        ELSE IF var = "frame-time"
        THEN LET cumulation == IF Len(rest) >= 1 THEN rest[Len(rest)] ELSE NULL
                 perRun == [i \in 1..Len(runs) |->
                               collect(Floats(runs[i].frames), cumulation)]
                 left == IF cumulation # NULL
                         THEN SubSeq(rest, 1, Len(rest) - 1) ELSE rest
             IN  IF FirstPanic(perRun, 1) # "none"
                 THEN [panic |-> FirstPanic(perRun, 1), value |-> Zero]
                 ELSE collect([i \in 1..Len(runs) |-> perRun[i].value],
                              IF Len(left) = 0 THEN NULL ELSE left[Len(left)])
        ELSE [panic |-> "variable", value |-> Zero]

\* getStat with a single prefix of frame-time taken as the outer cumulation.
getStatPrefixOuter(runs, specifiers) ==
    IF Len(specifiers) = 0 THEN [panic |-> "novariable", value |-> Zero]
    ELSE
    LET var == specifiers[Len(specifiers)]
        rest == SubSeq(specifiers, 1, Len(specifiers) - 1)
        samples == IF var = "build-time"
                   THEN Floats([i \in 1..Len(runs) |-> runs[i].buildTime])
                   ELSE [i \in 1..Len(runs) |-> collect(Floats(runs[i].frames), NULL).value]
    IN  IF var \notin {"build-time", "frame-time"}
        THEN [panic |-> "variable", value |-> Zero]
        ELSE IF Len(rest) > 1 THEN [panic |-> "toomany", value |-> Zero]
        ELSE collect(samples, IF Len(rest) = 0 THEN NULL ELSE rest[Len(rest)])

\* Stats::getStat(spec) on the runs recorded; spec is split by whitespace.
getStat(runs, specifiers) ==
    IF Len(specifiers) = 0 THEN [panic |-> "novariable", value |-> Zero]
    ELSE
    LET var == specifiers[Len(specifiers)]
        rest == SubSeq(specifiers, 1, Len(specifiers) - 1)
    IN  IF var = "build-time"
        THEN IF Len(rest) > 1 THEN [panic |-> "toomany", value |-> Zero]
             ELSE collect(Floats([i \in 1..Len(runs) |-> runs[i].buildTime]),
                          IF Len(rest) = 0 THEN NULL ELSE rest[Len(rest)])
        ELSE IF var = "frame-time"
        THEN LET cumulation == IF Len(rest) >= 1 THEN rest[Len(rest)] ELSE NULL
                 perRun == [i \in 1..Len(runs) |->
                               collect(Floats(runs[i].frames), cumulation)]
                 left == IF cumulation # NULL
                         THEN SubSeq(rest, 1, Len(rest) - 1) ELSE rest
             IN  IF FirstPanic(perRun, 1) # "none"
                 THEN [panic |-> FirstPanic(perRun, 1), value |-> Zero]
                 ELSE IF Len(left) > 1 THEN [panic |-> "toomany", value |-> Zero]
                 ELSE collect([i \in 1..Len(runs) |-> perRun[i].value],
                              IF Len(left) = 0 THEN NULL ELSE left[Len(left)])
        ELSE [panic |-> "variable", value |-> Zero]

(***************************************************************************)
(* The window surface of init(): SDL_CreateWindow(..., 1280, 720, 0).      *)
(***************************************************************************)
InitWidth == 1280

InitHeight == 720

InitSurf == [w |-> InitWidth, h |-> InitHeight]

(***************************************************************************)
(* The benchmark command list.  A line is kept as the tokens the           *)
(* interpreter splits it into: the operation, the whitespace-separated     *)
(* arguments, and for print the template after the operation, a sequence   *)
(* of literal pieces <<"text", t>> and queries <<"${", token, ...>>.        *)
(***************************************************************************)
Cmd(op, args) == [op |-> op, args |-> args, template |-> <<>>]

PrintCmd(template) == [op |-> "print", args |-> <<>>, template |-> template]

ScriptLines ==
    { Cmd("", <<>>),
      Cmd("#", <<"clear">>),
      Cmd("framerate", <<"3">>),
      Cmd("framerate", <<"-1">>),
      Cmd("framerate", <<>>),
      Cmd("framerate", <<"x">>),
      Cmd("clear", <<>>),
      Cmd("clear", <<"2">>),
      Cmd("resolution", <<"10", "10">>),
      Cmd("resolution", <<"9000", "-1">>),
      Cmd("resolution", <<"10">>),
      Cmd("resolution", <<"10", "x">>),
      Cmd("multithreading", <<"on">>),
      Cmd("multithreading", <<"off">>),
      Cmd("multithreading", <<>>),
      Cmd("run", <<"a.slang", "3.5">>),
      Cmd("run", <<"a.slang", "-1">>),
      Cmd("run", <<"b.glsl", "2">>),
      Cmd("run", <<"missing.glsl", "2">>),
      Cmd("run", <<"a.slang", "x">>),
      Cmd("run", <<"a.slang">>),
      PrintCmd(<<<<"text", "build">>, <<"${", "build-time">>>>),
      PrintCmd(<<<<"${", "sum", "frame-time">>>>),
      PrintCmd(<<<<"${", "build-time", "x">>>>),
      Cmd("bogus", <<>>) }

\* The files of a benchmark: a shader that compiles and one that does not;
\* any other path is missing.
BenchmarkFiles ==
    [p \in Paths |-> IF p = "a.slang" THEN [kind |-> "slang", mtime |-> 0]
                                      ELSE [kind |-> "bad", mtime |-> 0]]

\* The durations SDL_GetTicksNS measures, in ticks.
Durations == {1, 2}

\* The durations the timed build of a run takes, in ticks.
BuildDurations == {2}

\* readDouble: strtod consumes the whole token; the value in tenths.
NumberTokens == {"2", "3", "3.5", "-1", "0", "10", "9000"}

readDouble(str) ==
    CASE str = "2" -> [ok |-> TRUE, d |-> 20]
      [] str = "3" -> [ok |-> TRUE, d |-> 30]
      [] str = "3.5" -> [ok |-> TRUE, d |-> 35]
      [] str = "-1" -> [ok |-> TRUE, d |-> -10]
      [] str = "0" -> [ok |-> TRUE, d |-> 0]
      [] str = "10" -> [ok |-> TRUE, d |-> 100]
      [] str = "9000" -> [ok |-> TRUE, d |-> 90000]
      [] OTHER -> [ok |-> FALSE, d |-> 0]

\* int(double): truncation toward zero.
ToInt(d) == IF d >= 0 THEN d \div 10 ELSE -((-d) \div 10)

DISPATCH_TILE_SIZE == 8

MaxResolution == 8192

\* The clamp and the rounding of the resolution command.
RoundResolutionNoRounding(v) ==
    LET lo == IF v < 1 THEN 1 ELSE v
    IN  IF lo > MaxResolution THEN MaxResolution ELSE lo

RoundResolutionDown(v) ==
    LET lo == IF v < 1 THEN 1 ELSE v
        hi == IF lo > MaxResolution THEN MaxResolution ELSE lo
    IN  (hi \div DISPATCH_TILE_SIZE) * DISPATCH_TILE_SIZE

RoundResolution(v) ==
    LET lo == IF v < 1 THEN 1 ELSE v
        hi == IF lo > MaxResolution THEN MaxResolution ELSE lo
    IN  ((hi + DISPATCH_TILE_SIZE - 1) \div DISPATCH_TILE_SIZE) * DISPATCH_TILE_SIZE

(***************************************************************************)
(* Interactive mode (interactiveMain).                                     *)
(***************************************************************************)
\* init(); loadShader(res, nullptr); the locals of interactiveMain.
InteractiveStart ==
    /\ mode = "interactive" /\ pc = "start"
    /\ LET r == loadShader(files, NULL, entryPointFunc)
       IN  /\ entryPointFunc' = r.func
           /\ lastLoad' = Load("init", NULL, 0, r)
    /\ activeShaderPath' = ""
    /\ shaderModifyTime' = "uninitialized"
    /\ valid' = FALSE
    /\ pc' = "frame"
    /\ UNCHANGED <<mode, tileVars, pitch, pixelDataSize,
                   exitReason, files, surf, dispatched, presented, logged, events,
                   benchmarkVars>>

\* Top of the loop: the time constant is set and the delta time is printed
\* when the shader is valid.
FrameBegin ==
    /\ mode = "interactive" /\ pc = "frame"
    /\ logged' = valid
    /\ lastLoad' = NoLoad
    /\ pc' = "poll"
    /\ UNCHANGED <<mode, tileVars, pitch, pixelDataSize,
                   exitReason, files, surf, entryPointFunc, dispatched,
                   presented, activeShaderPath, shaderModifyTime, valid, events,
                   benchmarkVars>>

\* SDL_PollEvent returns SDL_EVENT_QUIT, or SDL_EVENT_KEY_DOWN with SDLK_Q:
\* goto end, deinit.
PollQuit ==
    /\ mode = "interactive" /\ pc = "poll"
    /\ lastLoad' = NoLoad
    /\ pc' = "end"
    /\ UNCHANGED <<mode, tileVars, pitch, pixelDataSize,
                   exitReason, files, surf, entryPointFunc, dispatched,
                   presented, interactiveVars, benchmarkVars>>

\* Any other event (SDLK_R resets the time epoch, the rest are ignored): the
\* state the shader pipeline reads is left alone and polling goes on.
PollOther ==
    /\ mode = "interactive" /\ pc = "poll"
    /\ lastLoad' = NoLoad
    /\ UNCHANGED <<mode, tileVars, pitch, pixelDataSize,
                   pc, exitReason, files, surf, entryPointFunc, dispatched,
                   presented, interactiveVars, benchmarkVars>>

\* The body of case SDL_EVENT_DROP_FILE for the dropped path.
DropFile(path) ==
    IF ~PathInfoOk(files, path)
    THEN /\ lastLoad' = NoLoad
         /\ UNCHANGED <<pc, exitReason, entryPointFunc, activeShaderPath,
                        shaderModifyTime, valid>>
    ELSE LET info == files[path]
             r == loadShader(files, path, entryPointFunc)
         IN  /\ lastLoad' = Load("drop", path, info.mtime, r)
             /\ entryPointFunc' = r.func
             /\ IF r.panic
                THEN /\ Panic("read")
                     /\ UNCHANGED <<activeShaderPath, shaderModifyTime, valid>>
                ELSE /\ UNCHANGED <<pc, exitReason>>
                     /\ IF r.status
                        THEN /\ activeShaderPath' = path
                             /\ shaderModifyTime' = info.mtime
                             /\ valid' = TRUE
                        ELSE /\ valid' = FALSE
                             /\ UNCHANGED <<activeShaderPath, shaderModifyTime>>

PollDrop ==
    /\ mode = "interactive" /\ pc = "poll"
    /\ \E path \in Paths : DropFile(path)
    /\ UNCHANGED <<mode, tileVars, pitch, pixelDataSize,
                   files, surf, dispatched, presented, logged, events, benchmarkVars>>

\* SDL_PollEvent returns false: the event loop is left.
PollEmpty ==
    /\ mode = "interactive" /\ pc = "poll"
    /\ lastLoad' = NoLoad
    /\ pc' = "reload"
    /\ UNCHANGED <<mode, tileVars, pitch, pixelDataSize,
                   exitReason, files, surf, entryPointFunc, dispatched,
                   presented, interactiveVars, benchmarkVars>>

\* The comparison of the hot reload check.
ReloadDueLax(stored, current) == stored <= current

ReloadDue(stored, current) == stored < current

\* The hot reload check of each frame.
ReloadCheck ==
    /\ mode = "interactive" /\ pc = "reload"
    /\ IF PathInfoOk(files, activeShaderPath)
          /\ ReloadDue(shaderModifyTime, files[activeShaderPath].mtime)
       THEN LET info == files[activeShaderPath]
                r == loadShader(files, activeShaderPath, entryPointFunc)
            IN  /\ shaderModifyTime' = info.mtime
                /\ lastLoad' = Load("reload", activeShaderPath, info.mtime, r)
                /\ entryPointFunc' = r.func
                /\ IF r.panic
                   THEN Panic("read") /\ UNCHANGED valid
                   ELSE /\ valid' = r.status
                        /\ pc' = "render"
                        /\ UNCHANGED exitReason
       ELSE /\ lastLoad' = NoLoad
            /\ pc' = "render"
            /\ UNCHANGED <<exitReason, entryPointFunc, shaderModifyTime, valid>>
    /\ UNCHANGED <<mode, tileVars, pitch, pixelDataSize,
                   files, surf, dispatched, presented, activeShaderPath,
                   logged, events, benchmarkVars>>

\* framebuffer.resize, the constants, renderFrameMultithread: every tile
\* invokes res.entryPointFunc (renderTile skips a null one).
RenderFrame ==
    /\ mode = "interactive" /\ pc = "render"
    /\ pixelDataSize' = surf.w * surf.h
    /\ pitch' = surf.w
    /\ dispatched' = entryPointFunc
    /\ lastLoad' = NoLoad
    /\ pc' = "present"
    /\ UNCHANGED <<mode, tileVars,
                   exitReason, files, surf, entryPointFunc, presented,
                   interactiveVars, benchmarkVars>>

\* SDL_ConvertPixels, SDL_UpdateWindowSurface, params.frame++.
PresentFrame ==
    /\ mode = "interactive" /\ pc = "present"
    /\ presented' = dispatched
    /\ lastLoad' = NoLoad
    /\ pc' = "frame"
    /\ UNCHANGED <<mode, tileVars, pitch, pixelDataSize,
                   exitReason, files, surf, entryPointFunc, dispatched,
                   interactiveVars, benchmarkVars>>

\* The environment: a watched file is written (or removed, or loses its read
\* permission), which gives it a newer modification time.
WriteFile ==
    /\ mode = "interactive" /\ pc \in {"frame", "poll", "reload", "render", "present"}
    /\ \E path \in Paths, kind \in FileKinds :
          /\ files[path].mtime < MaxTime
          /\ files' = [files EXCEPT ![path] = [kind |-> kind, mtime |-> @.mtime + 1]]
    /\ UNCHANGED <<mode, tileVars, pitch, pixelDataSize,
                   pc, exitReason, surf, entryPointFunc, lastLoad, dispatched,
                   presented, interactiveVars, benchmarkVars>>

InitCommon ==
    /\ pc = "start"
    /\ exitReason = "none"
    /\ surf = InitSurf
    /\ entryPointFunc = NULL
    /\ lastLoad = NoLoad
    /\ dispatched = "none"
    /\ presented = "none"
    /\ pitch = 0
    /\ pixelDataSize = 0
    /\ framebuffer = <<>>
    /\ written = {}
    /\ collisions = {}
    /\ invocations = <<>>
    /\ pendingTiles = {}
    /\ tileX = 0
    /\ tileY = 0
    /\ activeShaderPath = ""
    /\ shaderModifyTime = "uninitialized"
    /\ valid = FALSE
    /\ logged = FALSE
    /\ events = <<>>
    /\ commandList = <<>>
    /\ stats = <<>>
    /\ forcedDeltaTime = Rat(-1, 1)
    /\ multithreaded = TRUE
    /\ run = "none"
    /\ frameCount = 0
    /\ paramsFrame = 0
    /\ cumulatedTicks = 0
    /\ paramsTime = 0
    /\ output = <<>>

InitInteractive ==
    /\ mode = "interactive"
    /\ files \in [Paths -> [kind : FileKinds, mtime : {0}]]
    /\ InitCommon

NextInteractive ==
    \/ InteractiveStart
    \/ FrameBegin
    \/ PollQuit
    \/ PollOther
    \/ PollDrop
    \/ PollEmpty
    \/ ReloadCheck
    \/ RenderFrame
    \/ PresentFrame
    \/ WriteFile

SpecInteractive == InitInteractive /\ [][NextInteractive]_vars

(***************************************************************************)
(* Benchmark mode (benchmarkMain, benchmarkRenderMain).                    *)
(***************************************************************************)
\* init(); loadShader(res, nullptr); the command list is read; the locals.
BenchmarkStart ==
    /\ mode = "benchmark" /\ pc = "start"
    /\ LET r == loadShader(files, NULL, entryPointFunc)
       IN  /\ entryPointFunc' = r.func
           /\ lastLoad' = Load("init", NULL, 0, r)
    /\ stats' = <<>>
    /\ forcedDeltaTime' = Rat(-1, 1)
    /\ multithreaded' = TRUE
    /\ pc' = "cmd"
    /\ UNCHANGED <<mode, tileVars, pitch, pixelDataSize,
                   exitReason, files, surf, dispatched, presented,
                   interactiveVars, commandList, run, frameCount, paramsFrame,
                   cumulatedTicks, paramsTime, output>>

\* std::getline returns the next line, whose operation is one of ops.
ReadLine(line, ops) ==
    /\ mode = "benchmark" /\ pc = "cmd"
    /\ Len(commandList) < MaxLines
    /\ line.op \in ops
    /\ commandList' = Append(commandList, line)

\* std::getline fails at the end of the file: deinit, return.
ScriptEnd ==
    /\ mode = "benchmark" /\ pc = "cmd"
    /\ pc' = "end"
    /\ lastLoad' = NoLoad
    /\ UNCHANGED <<mode, tileVars, pitch, pixelDataSize,
                   exitReason, files, surf, entryPointFunc, dispatched,
                   presented, interactiveVars, benchmarkVars>>

\* An empty line or a comment: continue.
SkipLine ==
    /\ \E line \in ScriptLines : ReadLine(line, {"", "#"})
    /\ lastLoad' = NoLoad
    /\ UNCHANGED <<mode, tileVars, pitch, pixelDataSize,
                   pc, exitReason, files, surf, entryPointFunc, dispatched,
                   presented, interactiveVars, stats, forcedDeltaTime,
                   multithreaded, run, frameCount, paramsFrame, cumulatedTicks,
                   paramsTime, output>>

\* 1.0 / argDouble(0), the argument in tenths.
ForcedDelta(d) ==
    IF d = 0 THEN [tag |-> "inf", n |-> 1, d |-> 0, k |-> 1] ELSE Rat(10, d)

Framerate ==
    /\ \E line \in ScriptLines :
          /\ ReadLine(line, {"framerate"})
          /\ IF Len(line.args) # 1
             THEN Panic("argcount") /\ UNCHANGED forcedDeltaTime
             ELSE IF ~readDouble(line.args[1]).ok
             THEN Panic("number") /\ UNCHANGED forcedDeltaTime
             ELSE /\ forcedDeltaTime' = ForcedDelta(readDouble(line.args[1]).d)
                  /\ UNCHANGED <<pc, exitReason>>
    /\ lastLoad' = NoLoad
    /\ UNCHANGED <<mode, tileVars, pitch, pixelDataSize,
                   files, surf, entryPointFunc, dispatched, presented,
                   interactiveVars, stats, multithreaded, run, frameCount,
                   paramsFrame, cumulatedTicks, paramsTime, output>>

\* Stats::clear.
ClearRuns(runs) == <<>>

Clear ==
    /\ \E line \in ScriptLines :
          /\ ReadLine(line, {"clear"})
          /\ IF Len(line.args) # 0
             THEN Panic("argcount") /\ UNCHANGED stats
             ELSE /\ stats' = ClearRuns(stats)
                  /\ UNCHANGED <<pc, exitReason>>
    /\ lastLoad' = NoLoad
    /\ UNCHANGED <<mode, tileVars, pitch, pixelDataSize,
                   files, surf, entryPointFunc, dispatched, presented,
                   interactiveVars, forcedDeltaTime, multithreaded, run,
                   frameCount, paramsFrame, cumulatedTicks, paramsTime, output>>

\* setResolution: the window surface takes the size asked for.
Resolution ==
    /\ \E line \in ScriptLines :
          /\ ReadLine(line, {"resolution"})
          /\ IF Len(line.args) # 2
             THEN Panic("argcount") /\ UNCHANGED surf
             ELSE IF ~readDouble(line.args[1]).ok \/ ~readDouble(line.args[2]).ok
             THEN Panic("number") /\ UNCHANGED surf
             ELSE /\ surf' = [w |-> RoundResolution(ToInt(readDouble(line.args[1]).d)),
                              h |-> RoundResolution(ToInt(readDouble(line.args[2]).d))]
                  /\ UNCHANGED <<pc, exitReason>>
    /\ lastLoad' = NoLoad
    /\ UNCHANGED <<mode, tileVars, pitch, pixelDataSize,
                   files, entryPointFunc, dispatched, presented,
                   interactiveVars, stats, forcedDeltaTime, multithreaded, run,
                   frameCount, paramsFrame, cumulatedTicks, paramsTime, output>>

Multithreading ==
    /\ \E line \in ScriptLines :
          /\ ReadLine(line, {"multithreading"})
          /\ IF Len(line.args) # 1
             THEN Panic("argcount") /\ UNCHANGED multithreaded
             ELSE /\ multithreaded' = (line.args[1] \in {"on", "true"})
                  /\ UNCHANGED <<pc, exitReason>>
    /\ lastLoad' = NoLoad
    /\ UNCHANGED <<mode, tileVars, pitch, pixelDataSize,
                   files, surf, entryPointFunc, dispatched, presented,
                   interactiveVars, stats, forcedDeltaTime, run, frameCount,
                   paramsFrame, cumulatedTicks, paramsTime, output>>

\* What a failed build does to a benchmark run.
BuildFailureIgnored(shaderPath) ==
    /\ entryPointFunc' = loadShader(files, shaderPath, entryPointFunc).func
    /\ pc' = "run"
    /\ UNCHANGED exitReason

BuildFailure(shaderPath) ==
    /\ entryPointFunc' = NULL
    /\ Panic("compile")

\* The run command up to the frame loop of benchmarkRenderMain: the
\* arguments, readTextFile, the timed build, the constants, the framebuffer.
RunBegin ==
    /\ \E line \in ScriptLines :
          /\ ReadLine(line, {"run"})
          /\ IF Len(line.args) # 2
             THEN /\ Panic("argcount")
                  /\ lastLoad' = NoLoad
                  /\ UNCHANGED <<entryPointFunc, run, frameCount, paramsFrame,
                                 cumulatedTicks, pitch, pixelDataSize>>
             ELSE IF ~readDouble(line.args[2]).ok
             THEN /\ Panic("number")
                  /\ lastLoad' = NoLoad
                  /\ UNCHANGED <<entryPointFunc, run, frameCount, paramsFrame,
                                 cumulatedTicks, pitch, pixelDataSize>>
             ELSE IF ~ReadTextFileOk(files, line.args[1])
             THEN /\ Panic("read")
                  /\ lastLoad' = [kind |-> "run", path |-> line.args[1], time |-> 0,
                                  status |-> "panic"]
                  /\ UNCHANGED <<entryPointFunc, run, frameCount, paramsFrame,
                                 cumulatedTicks, pitch, pixelDataSize>>
             ELSE LET shaderPath == line.args[1]
                      r == loadShaderFromSource(shaderPath, files[shaderPath].kind,
                                                isPathToGLSL(shaderPath))
                  IN  /\ lastLoad' = [kind |-> "run", path |-> shaderPath, time |-> 0,
                                      status |-> IF r.status THEN "ok" ELSE "failed"]
                      /\ IF ~r.status
                         THEN /\ BuildFailure(shaderPath)
                              /\ UNCHANGED <<run, frameCount, paramsFrame,
                                             cumulatedTicks, pitch, pixelDataSize>>
                         ELSE /\ entryPointFunc' = r.func
                              /\ \E buildTime \in BuildDurations :
                                    run' = RunStats(buildTime, <<>>)
                              /\ pixelDataSize' = surf.w * surf.h
                              /\ pitch' = surf.w
                              /\ frameCount' = ToInt(readDouble(line.args[2]).d)
                              /\ paramsFrame' = 0
                              /\ cumulatedTicks' = 0
                              /\ pc' = "run"
                              /\ UNCHANGED exitReason
    /\ UNCHANGED <<mode, tileVars, files, surf, dispatched, presented,
                   interactiveVars, stats, forcedDeltaTime, multithreaded,
                   paramsTime, output>>

\* round(forcedDeltaTime * 1e6): the delta in microseconds.
ForcedTicksMicroseconds(delta) == (2 * 1000000 * delta.n + delta.d) \div (2 * delta.d)

\* round(forcedDeltaTime * 1e9) for a positive forced delta, in ticks.
ForcedTicks(delta) == (2 * 1000000000 * delta.n + delta.d) \div (2 * delta.d)

\* uint64_t(round(inf)): the conversion of an infinite delta (after
\* `framerate 0`) is undefined; it gives 0 where the conversion instruction
\* reports the invalid operand and the largest value where it saturates,
\* here the largest value of the integers of the model.
InfiniteDeltaTicks == {0, 2147483647}

\* What a quit event polled inside the frame loop does.
QuitStopsRun ==
    /\ stats' = Append(stats, run)
    /\ pc' = "cmd"
    /\ UNCHANGED exitReason

QuitDuringRun ==
    /\ Panic("interrupt")
    /\ UNCHANGED stats

\* curTicks - startTicks at the top of an iteration: the clock of the model
\* advances during the timed dispatch only, so the ticks since the top of
\* the iteration before are the frame time measured in it.
ElapsedTicks(r) == IF r.frames = <<>> THEN 0 ELSE r.frames[Len(r.frames)]

\* if (multithreaded) renderFrameMultithread(...) else
\* renderFrameSinglethread(...), as one step: the row the sequential loops
\* stand on when the dispatch returns; the parallel loop keeps no position.
\* The tiles and the framebuffer are followed in the dispatch model.
LoopRowParallelOnly(parallel, height) == 0

LoopRowAfter(parallel, height) ==
    IF parallel THEN 0
    ELSE (height + DISPATCH_TILE_SIZE - 1) \div DISPATCH_TILE_SIZE

\* One iteration of the frame loop: the time constant, the event poll, the
\* timed dispatch, the presentation, ++params.frame.
RunFrame ==
    /\ mode = "benchmark" /\ pc = "run"
    /\ paramsFrame < frameCount
    /\ \E converted \in IF forcedDeltaTime.tag = "inf" THEN InfiniteDeltaTicks ELSE {0} :
          LET elapsed == ElapsedTicks(run)
              deltaTicks == IF forcedDeltaTime.tag = "inf" THEN converted
                            ELSE IF forcedDeltaTime.tag = "rat" /\ forcedDeltaTime.n > 0
                            THEN ForcedTicks(forcedDeltaTime) ELSE elapsed
              ticks == IF paramsFrame # 0 THEN cumulatedTicks + deltaTicks
                                          ELSE cumulatedTicks
          IN  /\ cumulatedTicks' = ticks
              /\ paramsTime' = ticks
    /\ \/ /\ QuitDuringRun
          /\ UNCHANGED <<run, paramsFrame, dispatched, presented, tileX, tileY>>
       \/ /\ dispatched' = entryPointFunc
          /\ tileX' = 0
          /\ tileY' = LoopRowAfter(multithreaded, surf.h)
          /\ \E frameTime \in Durations :
                run' = [run EXCEPT !.frames = Append(@, frameTime)]
          /\ presented' = entryPointFunc
          /\ paramsFrame' = paramsFrame + 1
          /\ UNCHANGED <<pc, exitReason, stats>>
    /\ lastLoad' = NoLoad
    /\ UNCHANGED <<mode, framebuffer, written, collisions, invocations,
                   pendingTiles, pitch, pixelDataSize,
                   files, surf, entryPointFunc, interactiveVars, commandList,
                   forcedDeltaTime, multithreaded, frameCount, output>>

\* stats.runs.emplace_back(run).
RecordRunFirst(runs, r) == <<r>> \o runs

RecordRun(runs, r) == Append(runs, r)

\* The frame loop is left: the run is recorded.
RunEnd ==
    /\ mode = "benchmark" /\ pc = "run"
    /\ paramsFrame >= frameCount
    /\ stats' = RecordRun(stats, run)
    /\ run' = "none"
    /\ frameCount' = 0
    /\ cumulatedTicks' = 0
    /\ lastLoad' = NoLoad
    /\ pc' = "cmd"
    /\ UNCHANGED <<mode, tileVars, pitch, pixelDataSize,
                   exitReason, files, surf, entryPointFunc, dispatched,
                   presented, interactiveVars, commandList, forcedDeltaTime,
                   multithreaded, paramsFrame, paramsTime, output>>

\* The pieces of a print template, evaluated left to right.
RECURSIVE PrintPieces(_, _, _)
PrintPieces(runs, template, i) ==
    IF i > Len(template) THEN [panic |-> "none", text |-> <<>>]
    ELSE LET piece == template[i]
         IN  IF piece[1] = "${"
             THEN LET v == getStat(runs, Tail(piece))
                      rest == PrintPieces(runs, template, i + 1)
                  IN  IF v.panic # "none" THEN [panic |-> v.panic, text |-> <<>>]
                      ELSE [panic |-> rest.panic, text |-> <<v.value>> \o rest.text]
             ELSE PrintPieces(runs, template, i + 1)

PrintLine ==
    /\ \E line \in ScriptLines :
          /\ ReadLine(line, {"print"})
          /\ LET r == PrintPieces(stats, line.template, 1)
             IN  IF r.panic # "none"
                 THEN Panic(r.panic) /\ UNCHANGED output
                 ELSE /\ output' = Append(output, r.text)
                      /\ UNCHANGED <<pc, exitReason>>
    /\ lastLoad' = NoLoad
    /\ UNCHANGED <<mode, tileVars, pitch, pixelDataSize,
                   files, surf, entryPointFunc, dispatched, presented,
                   interactiveVars, stats, forcedDeltaTime, multithreaded, run,
                   frameCount, paramsFrame, cumulatedTicks, paramsTime>>

Operations == {"framerate", "clear", "resolution", "multithreading", "run", "print"}

\* What a line with an unknown operation does.
UnknownSkipped == UNCHANGED <<pc, exitReason>>

UnknownCommand == Panic("command")

Unrecognized ==
    /\ \E line \in ScriptLines :
          /\ ReadLine(line, {l.op : l \in ScriptLines} \ (Operations \cup {"", "#"}))
    /\ UnknownCommand
    /\ lastLoad' = NoLoad
    /\ UNCHANGED <<mode, tileVars, pitch, pixelDataSize,
                   files, surf, entryPointFunc, dispatched, presented,
                   interactiveVars, stats, forcedDeltaTime, multithreaded, run,
                   frameCount, paramsFrame, cumulatedTicks, paramsTime, output>>

InitBenchmark ==
    /\ mode = "benchmark"
    /\ files = BenchmarkFiles
    /\ InitCommon

NextBenchmark ==
    \/ BenchmarkStart
    \/ ScriptEnd
    \/ SkipLine
    \/ Framerate
    \/ Clear
    \/ Resolution
    \/ Multithreading
    \/ RunBegin
    \/ RunFrame
    \/ RunEnd
    \/ PrintLine
    \/ Unrecognized

SpecBenchmark == InitBenchmark /\ [][NextBenchmark]_vars

(***************************************************************************)
(* The tile dispatcher (renderFrameMultithread, renderFrameSinglethread,   *)
(* renderTile) and the generated kernel renderRunner, tile by tile.  The   *)
(* width and height are the arguments of the dispatch; the callers set the *)
(* pitch to the width and size the framebuffer to width * height.          *)
(***************************************************************************)
\* Largest width and height of a dispatch followed tile by tile.
MaxWidth == 17

MaxHeight == 16

\* (size + DISPATCH_TILE_SIZE - 1) / DISPATCH_TILE_SIZE
TileCountFloor(size) == size \div DISPATCH_TILE_SIZE

TileCount(size) == (size + DISPATCH_TILE_SIZE - 1) \div DISPATCH_TILE_SIZE

Tile(x, y) == [x |-> x, y |-> y]

\* An element std::vector::resize has value-initialized and no tile has
\* stored to; PixelColor never gives it.
ZeroPixel == <<0, 0>>

\* The iteration space of the two loops.
TileGrid(width, height) ==
    {Tile(x, y) : x \in 0..(TileCount(width) - 1), y \in 0..(TileCount(height) - 1)}

\* [numthreads(8, 8, 1)]: the dispatchThreadID.xy of the threads of a group.
GroupThreads(tile) ==
    {[x |-> tile.x * DISPATCH_TILE_SIZE + tx, y |-> tile.y * DISPATCH_TILE_SIZE + ty] :
        tx \in 0..(DISPATCH_TILE_SIZE - 1), ty \in 0..(DISPATCH_TILE_SIZE - 1)}

\* uint i = dispatchThreadID.x + dispatchThreadID.y * pitch
PixelIndexTileStride(thread, p) == thread.x + thread.y * DISPATCH_TILE_SIZE

PixelIndex(thread, p) == thread.x + thread.y * p

\* The color renderRunner stores for a thread: mainImage at the pixel center
\* with the vertical axis flipped, here in half pixels.
PixelColor(thread, resY) == <<2 * thread.x + 1, 2 * (resY - thread.y) - 1>>

\* The threads of a group that store to index i, found row by row.
ThreadsStoringTo(tile, i, p) ==
    {t \in {[x |-> i - (tile.y * DISPATCH_TILE_SIZE + ty) * p,
             y |-> tile.y * DISPATCH_TILE_SIZE + ty] : ty \in 0..(DISPATCH_TILE_SIZE - 1)} :
        /\ t.x >= tile.x * DISPATCH_TILE_SIZE
        /\ t.x < (tile.x + 1) * DISPATCH_TILE_SIZE
        /\ PixelIndex(t, p) = i}

\* The group function runs its threads one after the other, x fastest: of
\* the threads storing to one index the last one is that of the largest y.
LastThread(threads) == CHOOSE t \in threads : \A u \in threads : u.y <= t.y

\* The indices one group stores to.
GroupIndices(tile, p) == {PixelIndex(t, p) : t \in GroupThreads(tile)}

\* renderTile(res, xTile, yTile): the callable is invoked when it is set; its
\* stores land in the framebuffer, or past its end.
RenderTile(tile) ==
    IF entryPointFunc = NULL
    THEN UNCHANGED <<framebuffer, written, collisions, invocations>>
    ELSE LET indices == GroupIndices(tile, pitch)
         IN  /\ framebuffer' =
                   [i \in DOMAIN framebuffer |->
                       IF ThreadsStoringTo(tile, i, pitch) # {}
                       THEN PixelColor(LastThread(ThreadsStoringTo(tile, i, pitch)), surf.h)
                       ELSE framebuffer[i]]
             /\ written' = written \cup indices
             /\ collisions' = collisions \cup (written \cap indices)
             /\ invocations' =
                   [t \in DOMAIN invocations \cup {tile} |->
                       IF t = tile
                       THEN (IF t \in DOMAIN invocations THEN invocations[t] ELSE 0) + 1
                       ELSE invocations[t]]

\* The caller's preparation and the entry of the dispatch function.
DispatchBegin ==
    /\ mode = "dispatch" /\ pc = "start"
    /\ pixelDataSize' = surf.w * surf.h
    /\ pitch' = surf.w
    /\ framebuffer' = [i \in 0..(surf.w * surf.h - 1) |-> ZeroPixel]
    /\ pendingTiles' = IF multithreaded THEN TileGrid(surf.w, surf.h) ELSE {}
    /\ tileX' = 0
    /\ tileY' = 0
    /\ pc' = "tiles"
    /\ UNCHANGED <<mode, exitReason, files, surf, entryPointFunc, lastLoad,
                   dispatched, presented, written, collisions, invocations,
                   interactiveVars, benchmarkVars>>

\* renderFrameSinglethread: the next iteration of the loops, row by row.
RenderTileSequential ==
    /\ mode = "dispatch" /\ pc = "tiles" /\ ~multithreaded
    /\ tileY < TileCount(surf.h)
    /\ RenderTile(Tile(tileX, tileY))
    /\ IF tileX + 1 < TileCount(surf.w)
       THEN tileX' = tileX + 1 /\ UNCHANGED tileY
       ELSE tileX' = 0 /\ tileY' = tileY + 1
    /\ UNCHANGED <<mode, pc, exitReason, files, surf, entryPointFunc, lastLoad,
                   dispatched, presented, pitch, pixelDataSize, pendingTiles,
                   interactiveVars, benchmarkVars>>

\* renderFrameMultithread: omp parallel for collapse(2) schedule(dynamic,1)
\* hands each iteration to some thread once, in no fixed order.
RenderTileParallel ==
    /\ mode = "dispatch" /\ pc = "tiles" /\ multithreaded
    /\ \E tile \in pendingTiles :
          /\ RenderTile(tile)
          /\ pendingTiles' = pendingTiles \ {tile}
    /\ UNCHANGED <<mode, pc, exitReason, files, surf, entryPointFunc, lastLoad,
                   dispatched, presented, pitch, pixelDataSize, tileX, tileY,
                   interactiveVars, benchmarkVars>>

\* The framebuffer goes to SDL_ConvertPixels with tile tasks still pending.
DispatchEndUnjoined ==
    /\ mode = "dispatch" /\ pc = "tiles"
    /\ multithreaded \/ tileY >= TileCount(surf.h)
    /\ dispatched' = entryPointFunc
    /\ presented' = entryPointFunc
    /\ pc' = "joined"
    /\ UNCHANGED <<mode, tileVars, exitReason, files, surf, entryPointFunc, lastLoad,
                   pitch, pixelDataSize, interactiveVars, benchmarkVars>>

\* The loops are over (the implicit barrier of the parallel region): the
\* dispatch returns and the framebuffer goes to SDL_ConvertPixels.
DispatchEnd ==
    /\ mode = "dispatch" /\ pc = "tiles"
    /\ IF multithreaded THEN pendingTiles = {} ELSE tileY >= TileCount(surf.h)
    /\ dispatched' = entryPointFunc
    /\ presented' = entryPointFunc
    /\ pc' = "joined"
    /\ UNCHANGED <<mode, tileVars, exitReason, files, surf, entryPointFunc, lastLoad,
                   pitch, pixelDataSize, interactiveVars, benchmarkVars>>

InitDispatch ==
    /\ mode = "dispatch"
    /\ files = BenchmarkFiles
    /\ \E w \in 1..MaxWidth, h \in 1..MaxHeight, parallel \in BOOLEAN, f \in {"fallback", "a.slang"} :
          /\ pc = "start"
          /\ exitReason = "none"
          /\ surf = [w |-> w, h |-> h]
          /\ entryPointFunc = f
          /\ multithreaded = parallel
    /\ lastLoad = NoLoad
    /\ dispatched = "none"
    /\ presented = "none"
    /\ pitch = 0
    /\ pixelDataSize = 0
    /\ framebuffer = <<>>
    /\ written = {}
    /\ collisions = {}
    /\ invocations = <<>>
    /\ pendingTiles = {}
    /\ tileX = 0
    /\ tileY = 0
    /\ activeShaderPath = ""
    /\ shaderModifyTime = "uninitialized"
    /\ valid = FALSE
    /\ logged = FALSE
    /\ events = <<>>
    /\ commandList = <<>>
    /\ stats = <<>>
    /\ forcedDeltaTime = Rat(-1, 1)
    /\ run = "none"
    /\ frameCount = 0
    /\ paramsFrame = 0
    /\ cumulatedTicks = 0
    /\ paramsTime = 0
    /\ output = <<>>

NextDispatch ==
    \/ DispatchBegin
    \/ RenderTileSequential
    \/ RenderTileParallel
    \/ DispatchEnd

SpecDispatch == InitDispatch /\ [][NextDispatch]_vars

(***************************************************************************)
(* The statistics of a benchmark on their own: runs are recorded into the  *)
(* history, the history is cleared, and one query of a print line is       *)
(* evaluated by Stats::getStat.                                            *)
(***************************************************************************)
\* Largest number of runs in the history a query is evaluated on.
MaxRuns == 2

\* The runs recorded: build and frame durations in ticks.
SampleRuns ==
    { RunStats(1, <<1, 2>>),
      RunStats(2, <<3, 4>>),
      RunStats(3, <<>>),
      RunStats(1, <<2>>),
      RunStats(4, <<1, 2, 3, 4>>),
      RunStats(2, <<3, 1, 2>>),
      RunStats(3, <<4, 2, 2, 1>>) }

\* The tokens before the variable of a query: the names collect knows and
\* two it does not.
QueryTokens == Cumulations \cup {"last", "bogus"}

QueryVariables == {"build-time", "frame-time", "bogus-time"}

\* The queries: the empty one, a variable after up to one token of
\* QueryTokens, after two tokens and after three tokens of a shorter list.
Queries ==
    {<<>>}
      \cup {<<v>> : v \in QueryVariables}
      \cup {<<t, v>> : t \in QueryTokens, v \in QueryVariables}
      \cup {<<t1, t2, v>> : t1 \in {"sum", "median", "stddev", "bogus"},
                            t2 \in {"sum", "median", "stddev", "bogus"},
                            v \in QueryVariables}
      \cup {<<t1, t2, t3, v>> : t1 \in {"sum", "bogus"}, t2 \in {"sum", "bogus"},
                                t3 \in {"sum", "bogus"}, v \in QueryVariables}

\* Stats stats; of benchmarkMain.
StatsBegin ==
    /\ mode = "stats" /\ pc = "start"
    /\ stats' = <<>>
    /\ pc' = "cmd"
    /\ UNCHANGED <<mode, exitReason, files, surf, entryPointFunc, lastLoad,
                   dispatched, presented, pitch, pixelDataSize, tileVars,
                   interactiveVars, commandList, forcedDeltaTime, multithreaded,
                   run, frameCount, paramsFrame, cumulatedTicks, paramsTime,
                   output>>

\* A run ends: stats.runs.emplace_back(run).
StatsRecord ==
    /\ mode = "stats" /\ pc = "cmd"
    /\ Len(stats) < MaxRuns
    /\ \E r \in SampleRuns : stats' = RecordRun(stats, r)
    /\ UNCHANGED <<mode, pc, exitReason, files, surf, entryPointFunc, lastLoad,
                   dispatched, presented, pitch, pixelDataSize, tileVars,
                   interactiveVars, commandList, forcedDeltaTime, multithreaded,
                   run, frameCount, paramsFrame, cumulatedTicks, paramsTime,
                   output>>

\* The clear command on a history with runs, once.
StatsClear ==
    /\ mode = "stats" /\ pc = "cmd"
    /\ stats # <<>>
    /\ commandList = <<>>
    /\ commandList' = Append(commandList, Cmd("clear", <<>>))
    /\ stats' = ClearRuns(stats)
    /\ UNCHANGED <<mode, pc, exitReason, files, surf, entryPointFunc, lastLoad,
                   dispatched, presented, pitch, pixelDataSize, tileVars,
                   interactiveVars, forcedDeltaTime, multithreaded,
                   run, frameCount, paramsFrame, cumulatedTicks, paramsTime,
                   output>>

\* The print command with one ${...}: getStat on the tokens of the query.
StatsQuery ==
    /\ mode = "stats" /\ pc = "cmd"
    /\ \E q \in Queries :
          LET line == PrintCmd(<<<<"${">> \o q>>)
              r == PrintPieces(stats, line.template, 1)
          IN  /\ commandList' = Append(commandList, line)
              /\ IF r.panic # "none"
                 THEN Panic(r.panic) /\ UNCHANGED output
                 ELSE /\ output' = Append(output, r.text)
                      /\ pc' = "end"
                      /\ UNCHANGED exitReason
    /\ UNCHANGED <<mode, files, surf, entryPointFunc, lastLoad,
                   dispatched, presented, pitch, pixelDataSize, tileVars,
                   interactiveVars, stats, forcedDeltaTime, multithreaded,
                   run, frameCount, paramsFrame, cumulatedTicks, paramsTime>>

InitStats ==
    /\ mode = "stats"
    /\ files = BenchmarkFiles
    /\ InitCommon

NextStats ==
    \/ StatsBegin
    \/ StatsRecord
    \/ StatsClear
    \/ StatsQuery

SpecStats == InitStats /\ [][NextStats]_vars

(***************************************************************************)
(* The interactive loop with the event queue of SDL and with the tiles of  *)
(* the dispatch as steps of their own: an event is posted at any point of  *)
(* a frame and waits in the queue until SDL_PollEvent takes it.            *)
(***************************************************************************)
\* The most events that wait in the queue.
MaxEvents == 2

Event(type, key, data) == [type |-> type, key |-> key, data |-> data]

\* The events the switch of the polling loop tells apart.
Events ==
    {Event("SDL_EVENT_QUIT", NULL, NULL),
     Event("SDL_EVENT_KEY_DOWN", "SDLK_Q", NULL),
     Event("SDL_EVENT_KEY_DOWN", "SDLK_R", NULL)}
    \cup {Event("SDL_EVENT_DROP_FILE", NULL, path) : path \in Paths}

\* The events whose case ends in `goto end`.
IsQuit(event) ==
    \/ event.type = "SDL_EVENT_QUIT"
    \/ event.type = "SDL_EVENT_KEY_DOWN" /\ event.key = "SDLK_Q"

\* The window surface, scaled down to two tiles by one (the window of
\* init() is 160 tiles by 90).
EventSurf == [w |-> 2 * DISPATCH_TILE_SIZE, h |-> DISPATCH_TILE_SIZE]

\* The positions of the control thread inside for(;;).
LoopPositions == {"frame", "poll", "reload", "render", "tiles", "present"}

\* The environment: the user or the window system posts an event, at any
\* point of the frame.
PostEvent ==
    /\ mode = "interactive" /\ pc \in LoopPositions
    /\ Len(events) < MaxEvents
    /\ \E event \in Events : events' = Append(events, event)
    /\ UNCHANGED <<sysVars, tileVars, activeShaderPath, shaderModifyTime, valid,
                   logged, benchmarkVars>>

\* A quit that is acted on wherever the control thread is, a dispatch under
\* way included.
PollEventQuitAnywhere ==
    /\ mode = "interactive" /\ pc \in LoopPositions
    /\ events # <<>> /\ IsQuit(Head(events))
    /\ events' = Tail(events)
    /\ lastLoad' = NoLoad
    /\ pc' = "end"
    /\ UNCHANGED <<mode, tileVars, pitch, pixelDataSize,
                   exitReason, files, surf, entryPointFunc, dispatched,
                   presented, activeShaderPath, shaderModifyTime, valid, logged,
                   benchmarkVars>>

\* SDL_PollEvent takes SDL_EVENT_QUIT, or SDL_EVENT_KEY_DOWN with SDLK_Q,
\* from the queue: goto end, deinit. What is queued behind it stays there.
PollEventQuit ==
    /\ mode = "interactive" /\ pc = "poll"
    /\ events # <<>> /\ IsQuit(Head(events))
    /\ events' = Tail(events)
    /\ lastLoad' = NoLoad
    /\ pc' = "end"
    /\ UNCHANGED <<mode, tileVars, pitch, pixelDataSize,
                   exitReason, files, surf, entryPointFunc, dispatched,
                   presented, activeShaderPath, shaderModifyTime, valid, logged,
                   benchmarkVars>>

\* SDL_PollEvent takes a key other than Q (SDLK_R resets the time epoch):
\* polling goes on.
PollEventOther ==
    /\ mode = "interactive" /\ pc = "poll"
    /\ events # <<>>
    /\ Head(events).type = "SDL_EVENT_KEY_DOWN" /\ Head(events).key # "SDLK_Q"
    /\ events' = Tail(events)
    /\ lastLoad' = NoLoad
    /\ UNCHANGED <<mode, tileVars, pitch, pixelDataSize,
                   pc, exitReason, files, surf, entryPointFunc, dispatched,
                   presented, activeShaderPath, shaderModifyTime, valid, logged,
                   benchmarkVars>>

\* SDL_PollEvent takes SDL_EVENT_DROP_FILE from the queue.
PollEventDrop ==
    /\ mode = "interactive" /\ pc = "poll"
    /\ events # <<>> /\ Head(events).type = "SDL_EVENT_DROP_FILE"
    /\ events' = Tail(events)
    /\ DropFile(Head(events).data)
    /\ UNCHANGED <<mode, tileVars, pitch, pixelDataSize,
                   files, surf, dispatched, presented, logged, benchmarkVars>>

\* SDL_PollEvent finds the queue empty: the event loop is left.
PollEventEmpty ==
    /\ mode = "interactive" /\ pc = "poll"
    /\ events = <<>>
    /\ lastLoad' = NoLoad
    /\ pc' = "reload"
    /\ UNCHANGED <<mode, tileVars, pitch, pixelDataSize,
                   exitReason, files, surf, entryPointFunc, dispatched,
                   presented, interactiveVars, benchmarkVars>>

\* framebuffer.resize (new elements are zero, the pixels of the frame
\* before stay), the constants, and the entry of renderFrameMultithread:
\* every tile of the grid is an iteration to run.
FrameDispatchBegin ==
    /\ mode = "interactive" /\ pc = "render"
    /\ pixelDataSize' = surf.w * surf.h
    /\ pitch' = surf.w
    /\ framebuffer' = [i \in 0..(surf.w * surf.h - 1) |->
                          IF i \in DOMAIN framebuffer THEN framebuffer[i] ELSE ZeroPixel]
    /\ pendingTiles' = TileGrid(surf.w, surf.h)
    /\ written' = {}
    /\ collisions' = {}
    /\ invocations' = <<>>
    /\ dispatched' = entryPointFunc
    /\ lastLoad' = NoLoad
    /\ pc' = "tiles"
    /\ UNCHANGED <<mode, exitReason, files, surf, entryPointFunc, presented,
                   tileX, tileY, interactiveVars, benchmarkVars>>

\* One iteration of the parallel loop of renderFrameMultithread.
FrameTile ==
    /\ mode = "interactive" /\ pc = "tiles"
    /\ \E tile \in pendingTiles :
          /\ pendingTiles' = pendingTiles \ {tile}
          /\ RenderTile(tile)
    /\ UNCHANGED <<mode, pc, exitReason, files, surf, entryPointFunc, lastLoad,
                   dispatched, presented, pitch, pixelDataSize, tileX, tileY,
                   interactiveVars, benchmarkVars>>

\* The implicit barrier of the parallel region: renderFrameMultithread
\* returns when no iteration is left.
FrameDispatchEnd ==
    /\ mode = "interactive" /\ pc = "tiles"
    /\ pendingTiles = {}
    /\ pc' = "present"
    /\ UNCHANGED <<mode, tileVars, exitReason, files, surf, entryPointFunc,
                   lastLoad, dispatched, presented, pitch, pixelDataSize,
                   interactiveVars, benchmarkVars>>

InitEvents ==
    /\ mode = "interactive"
    /\ files = BenchmarkFiles
    /\ pc = "start"
    /\ exitReason = "none"
    /\ surf = EventSurf
    /\ entryPointFunc = NULL
    /\ lastLoad = NoLoad
    /\ dispatched = "none"
    /\ presented = "none"
    /\ pitch = 0
    /\ pixelDataSize = 0
    /\ framebuffer = <<>>
    /\ written = {}
    /\ collisions = {}
    /\ invocations = <<>>
    /\ pendingTiles = {}
    /\ tileX = 0
    /\ tileY = 0
    /\ activeShaderPath = ""
    /\ shaderModifyTime = "uninitialized"
    /\ valid = FALSE
    /\ logged = FALSE
    /\ events = <<>>
    /\ commandList = <<>>
    /\ stats = <<>>
    /\ forcedDeltaTime = Rat(-1, 1)
    /\ multithreaded = TRUE
    /\ run = "none"
    /\ frameCount = 0
    /\ paramsFrame = 0
    /\ cumulatedTicks = 0
    /\ paramsTime = 0
    /\ output = <<>>

NextEvents ==
    \/ InteractiveStart
    \/ FrameBegin
    \/ PostEvent
    \/ PollEventQuit
    \/ PollEventOther
    \/ PollEventDrop
    \/ PollEventEmpty
    \/ ReloadCheck
    \/ FrameDispatchBegin
    \/ FrameTile
    \/ FrameDispatchEnd
    \/ PresentFrame

SpecEvents == InitEvents /\ [][NextEvents]_vars

\* The parallel region runs every iteration it was given and returns, and
\* the presentation follows the dispatch with nothing to wait for.
SpecEventsFair ==
    /\ SpecEvents
    /\ WF_vars(FrameTile)
    /\ WF_vars(FrameDispatchEnd)
    /\ WF_vars(PresentFrame)

(***************************************************************************)
(* main: no argument starts interactive mode, one argument benchmark mode. *)
(***************************************************************************)
Init == InitInteractive \/ InitBenchmark

Next == NextInteractive \/ NextBenchmark

Spec == Init /\ [][Next]_vars

(***************************************************************************)
(* Properties.                                                             *)
(***************************************************************************)
\* C1: once loadShader has been called (for a path that compiles, for one
\* that does not, or for the null path) the callable is set: no state of a
\* running process past its first load has entryPointFunc null, and no tile
\* dispatch found it null.
C1_CallableSetAfterLoad ==
    /\ lastLoad.kind \in {"init", "drop", "reload"} => entryPointFunc # NULL
    /\ pc \notin {"start", "exited"} => entryPointFunc # NULL
    /\ dispatched # NULL

\* A hot reload failed, and the frame was dispatched and presented with the
\* fallback.
C1_Witness ==
    /\ mode = "interactive"
    /\ activeShaderPath # ""
    /\ ~valid
    /\ entryPointFunc = fallbackSource.name
    /\ dispatched = fallbackSource.name
    /\ presented = fallbackSource.name

C3_DropSwitchesPath ==
    (lastLoad.kind = "drop" /\ lastLoad.status \in {"ok", "failed"})
        => /\ activeShaderPath = lastLoad.path
           /\ shaderModifyTime = lastLoad.time

\* C4: the hot reload check of a frame calls loadShader for the active path
\* exactly when the path's info can be queried and its modification time is
\* strictly newer than the stored one; the stored time is then the current
\* one and validity is the result of loadShader; otherwise nothing is loaded
\* and nothing changes; after the check the stored time is not older than
\* the file's, so the same modification does not reload again.
C4_ReloadIffNewer ==
    [][(mode = "interactive" /\ pc = "reload" /\ pc' # "reload") =>
          LET known == PathInfoOk(files, activeShaderPath)
              newer == known /\ shaderModifyTime < files[activeShaderPath].mtime
          IN  /\ (lastLoad'.kind = "reload") <=> newer
              /\ ~newer => /\ lastLoad' = NoLoad
                           /\ UNCHANGED <<shaderModifyTime, valid, entryPointFunc>>
              /\ newer => /\ lastLoad'.path = activeShaderPath
                          /\ shaderModifyTime' = files[activeShaderPath].mtime
                          /\ pc' # "exited" => valid' = (lastLoad'.status = "ok")
              /\ known => ~(shaderModifyTime' < files'[activeShaderPath'].mtime)
              /\ activeShaderPath = "" => ~newer
      ]_vars

\* A modification was picked up by a reload that failed, and the stored time
\* follows the file.
C4_Witness ==
    /\ pc = "render"
    /\ lastLoad.kind = "reload"
    /\ lastLoad.status = "failed"
    /\ shaderModifyTime = files[activeShaderPath].mtime
    /\ shaderModifyTime > 0

\* What the claims about the command list call a malformed line.
Arity(op) ==
    CASE op = "framerate" -> 1
      [] op = "clear" -> 0
      [] op = "resolution" -> 2
      [] op = "multithreading" -> 1
      [] op = "run" -> 2

IsSkipped(line) == line.op \in {"", "#"}

WrongArgCount(line) == line.op \in Operations \ {"print"} /\ Len(line.args) # Arity(line.op)

NumericArgs(line) ==
    CASE line.op = "framerate" -> {1}
      [] line.op = "resolution" -> {1, 2}
      [] line.op = "run" -> {2}
      [] OTHER -> {}

UnparseableNumber(line) ==
    \E i \in NumericArgs(line) : i <= Len(line.args) /\ line.args[i] \notin NumberTokens

UnreadableShader(line) ==
    line.op = "run" /\ Len(line.args) >= 1 /\ ~ReadTextFileOk(files, line.args[1])

UnknownOperation(line) == ~IsSkipped(line) /\ line.op \notin Operations

Malformed(line) ==
    \/ WrongArgCount(line)
    \/ UnparseableNumber(line)
    \/ (UnreadableShader(line) /\ Len(line.args) = 2)
    \/ UnknownOperation(line)

LastLine == commandList[Len(commandList)]

\* C5: a line with a wrong argument count, an unparseable number, an
\* unreadable shader file or an unknown command ends the process at that
\* line, with the history, the forced delta, the multithreading flag, the
\* resolution and the printed output as they were before it; once the
\* process has ended nothing is executed any more.
C5_MalformedLineIsFatal ==
    [][/\ (mode = "benchmark" /\ pc = "cmd" /\ commandList' # commandList
              /\ Malformed(commandList'[Len(commandList')]))
          => /\ pc' = "exited"
             /\ exitReason' \in {"argcount", "number", "read", "command"}
             /\ UNCHANGED <<stats, forcedDeltaTime, multithreaded, surf, output>>
       /\ pc # "exited"
      ]_vars

\* A run was recorded, and a later run of a missing file ended the process.
C5_Witness ==
    /\ pc = "exited"
    /\ exitReason = "read"
    /\ Len(stats) = 1
    /\ Len(commandList) = 2

\* A run line that gets through its arguments, its file and its build.
RunLineBuilds(line) ==
    /\ line.op = "run"
    /\ Len(line.args) = 2
    /\ line.args[2] \in NumberTokens
    /\ ReadTextFileOk(files, line.args[1])
    /\ CompilerAccepts(files[line.args[1]].kind, isPathToGLSL(line.args[1]))

RequestedFrames(line) == ToInt(readDouble(line.args[2]).d)

\* The frame counts requested by the run lines of a list of executed lines
\* since its last clear, in order.
RECURSIVE RequestedSinceClear(_, _)
RequestedSinceClear(lines, i) ==
    IF i = 0 THEN <<>>
    ELSE IF lines[i].op = "clear" /\ lines[i].args = <<>> THEN <<>>
    ELSE IF RunLineBuilds(lines[i])
         THEN Append(RequestedSinceClear(lines, i - 1), RequestedFrames(lines[i]))
         ELSE RequestedSinceClear(lines, i - 1)

\* The lines executed to their end: the last line read is not among them
\* while its run is in the frame loop, or when it ended the process.
CompletedLines ==
    IF pc \in {"run", "exited"}
    THEN SubSeq(commandList, 1, Len(commandList) - 1)
    ELSE commandList

Max0(n) == IF n < 0 THEN 0 ELSE n

\* C6: a quit event polled in the frame loop of a run ends the process and
\* the run being recorded is not in the history; no run of the history has
\* fewer frames than the run line asked for.
C6_InterruptedRunNotRecorded ==
    LET requested == RequestedSinceClear(CompletedLines, Len(CompletedLines))
    IN  /\ exitReason = "interrupt"
            => /\ pc = "exited"
               /\ RunLineBuilds(LastLine)
               /\ Len(stats) = Len(requested)
        /\ Len(stats) <= Len(requested)
        /\ \A i \in 1..Len(stats) : Len(stats[i].frames) >= Max0(requested[i])

\* A run was interrupted after a frame had been timed, with an earlier run
\* in the history.
C6_Witness ==
    /\ exitReason = "interrupt"
    /\ Len(run.frames) = 1
    /\ Len(stats) = 1

\* C7: the history holds one RunStats for each run completed since the last
\* clear, in the order of execution, each with a build duration and exactly
\* frameCount frame durations (none for frameCount <= 0); only the end of a
\* run and a clear change the history.
C7_HistoryMatchesRuns ==
    /\ [](mode = "benchmark" =>
            LET requested == RequestedSinceClear(CompletedLines, Len(CompletedLines))
            IN  /\ [i \in 1..Len(stats) |-> Len(stats[i].frames)]
                      = [i \in 1..Len(requested) |-> Max0(requested[i])]
                /\ \A i \in 1..Len(stats) :
                      /\ stats[i].buildTime \in Durations
                      /\ \A k \in 1..Len(stats[i].frames) :
                            stats[i].frames[k] \in Durations)
    /\ [][stats' # stats =>
             \/ pc = "run" /\ pc' = "cmd" /\ stats' = Append(stats, run)
             \/ pc = "cmd" /\ commandList' # commandList
                   /\ commandList'[Len(commandList')].op = "clear" /\ stats' = <<>>
         ]_vars

\* Two runs of different lengths are in the history, in the order they ran.
C7_Witness ==
    /\ pc = "cmd"
    /\ Len(stats) = 2
    /\ Len(stats[1].frames) = 3
    /\ Len(stats[2].frames) = 0

\* C8 as claimed: with the pitch equal to the width and the framebuffer of
\* length width * height, for any width and height no index is stored to by
\* two different tiles of a dispatch.
C8_TilesDisjoint ==
    (mode = "dispatch" /\ pc \in {"tiles", "joined"}
        /\ pitch = surf.w /\ pixelDataSize = surf.w * surf.h)
        => collisions = {}

\* C8 amended: the same for any width that is a multiple of the tile size.
C8_TilesDisjointAlignedWidth ==
    (mode = "dispatch" /\ pc \in {"tiles", "joined"}
        /\ pitch = surf.w /\ pixelDataSize = surf.w * surf.h
        /\ surf.w % DISPATCH_TILE_SIZE = 0)
        => collisions = {}

\* A parallel dispatch of four tiles over a width of two tiles has ended.
C8_Witness ==
    /\ mode = "dispatch"
    /\ pc = "joined"
    /\ multithreaded
    /\ surf.w = 2 * DISPATCH_TILE_SIZE
    /\ surf.h = DISPATCH_TILE_SIZE + 1
    /\ Cardinality(DOMAIN invocations) = 4
    /\ Cardinality(written) = 4 * DISPATCH_TILE_SIZE * DISPATCH_TILE_SIZE

\* The largest index a dispatch computes: that of the last thread of the
\* last tile (the index grows with x and with y).
LargestIndex(width, height, p) ==
    PixelIndex([x |-> TileCount(width) * DISPATCH_TILE_SIZE - 1,
                y |-> TileCount(height) * DISPATCH_TILE_SIZE - 1], p)

\* C9: in a benchmark run, after any resolution commands or none, the width
\* and the height dispatched are multiples of 8 and every index a tile
\* computes is below the framebuffer length width * height.
C9_BenchmarkIndicesInRange ==
    (mode = "benchmark" /\ pc = "run")
        => /\ surf.w % 8 = 0
           /\ surf.h % 8 = 0
           /\ pitch = surf.w
           /\ pixelDataSize = surf.w * surf.h
           /\ LargestIndex(surf.w, surf.h, pitch) < pixelDataSize

\* A frame was dispatched after `resolution 10 10`.
C9_Witness ==
    /\ mode = "benchmark"
    /\ pc = "run"
    /\ paramsFrame >= 1
    /\ surf = [w |-> 16, h |-> 16]

\* The least q with q * b >= a.
CeilDiv(a, b) == CHOOSE q \in 0..a : q * b >= a /\ (q - 1) * b < a

\* C10: a dispatch over W x H, sequential or parallel, invokes the callable
\* exactly once for each tile (x, y) with x < ceil(W/8) and y < ceil(H/8)
\* and for no other, ceil(W/8) * ceil(H/8) invocations in all, none
\* repeated, and the 8x8 footprints of the tiles contain every pixel of the
\* rectangle.
C10_EveryTileOnce ==
    /\ (mode = "dispatch" /\ pc = "tiles")
          => \A t \in DOMAIN invocations : invocations[t] = 1
    /\ (mode = "dispatch" /\ pc = "joined")
          => LET expected == {Tile(x, y) : x \in 0..(CeilDiv(surf.w, 8) - 1),
                                           y \in 0..(CeilDiv(surf.h, 8) - 1)}
             IN  /\ invocations = [t \in expected |-> 1]
                 /\ Cardinality(DOMAIN invocations)
                       = CeilDiv(surf.w, 8) * CeilDiv(surf.h, 8)
                 /\ \A px \in 0..(surf.w - 1), py \in 0..(surf.h - 1) :
                       \E t \in DOMAIN invocations :
                          /\ px \in (8 * t.x)..(8 * t.x + 7)
                          /\ py \in (8 * t.y)..(8 * t.y + 7)

\* A sequential dispatch over 17 x 9, three tiles by two, has ended.
C10_Witness ==
    /\ mode = "dispatch"
    /\ pc = "joined"
    /\ ~multithreaded
    /\ surf = [w |-> 17, h |-> 9]
    /\ Cardinality(DOMAIN invocations) = 6

\* clamp(v, 1, 8192).
Clamp(v) == IF v < 1 THEN 1 ELSE IF v > 8192 THEN 8192 ELSE v

\* The least multiple of 8 that is >= v, for 1 <= v <= 8192.
LeastMultipleOf8AtLeast(v) ==
    CHOOSE m \in {8 * k : k \in 1..1024} : m >= v /\ m - 8 < v

\* The integer arguments the rounding is compared on: below the clamp, every
\* residue modulo 8 at both ends of the range, and above the clamp.
ResolutionArguments == (-9..40) \cup (8150..8210)

\* C11: the resolution command requests (r(w), r(h)), r(v) the least multiple
\* of 8 that is >= clamp(v, 1, 8192), for any integer arguments; the result
\* is a multiple of 8 in [8, 8192]; `resolution 10 10` gives 16 x 16.
C11_ResolutionRounded ==
    /\ \A v \in ResolutionArguments :
          /\ RoundResolution(v) = LeastMultipleOf8AtLeast(Clamp(v))
          /\ RoundResolution(v) % 8 = 0
          /\ RoundResolution(v) \in 8..8192
    /\ RoundResolution(10) = 16
    /\ [][(mode = "benchmark" /\ pc = "cmd" /\ commandList' # commandList
             /\ commandList'[Len(commandList')].op = "resolution"
             /\ ~Malformed(commandList'[Len(commandList')]))
          => LET line == commandList'[Len(commandList')]
                 w == ToInt(readDouble(line.args[1]).d)
                 h == ToInt(readDouble(line.args[2]).d)
             IN  /\ surf' = [w |-> LeastMultipleOf8AtLeast(Clamp(w)),
                             h |-> LeastMultipleOf8AtLeast(Clamp(h))]
                 /\ surf'.w % 8 = 0 /\ surf'.w \in 8..8192
                 /\ surf'.h % 8 = 0 /\ surf'.h \in 8..8192
                 /\ line.args = <<"10", "10">> => surf' = [w |-> 16, h |-> 16]
                 /\ pc' = "cmd"
         ]_vars

\* `resolution 9000 -1` was executed: both clamps and both roundings acted.
C11_Witness ==
    /\ mode = "benchmark"
    /\ pc = "cmd"
    /\ Len(commandList) >= 1
    /\ LastLine = Cmd("resolution", <<"9000", "-1">>)
    /\ surf = [w |-> 8192, h |-> 8]

\* The tokens of the query of the print line that was executed last.
LastQuery == Tail(LastLine.template[1])

\* A query has been evaluated, to a value or to a fatal error.
QueryDone ==
    /\ mode = "stats"
    /\ pc \in {"end", "exited"}

\* The value the query evaluated to.
QueryValue == output[Len(output)][1]

RECURSIVE TicksSum(_)
TicksSum(seq) == IF seq = <<>> THEN 0 ELSE Head(seq) + TicksSum(Tail(seq))

\* C12: a frame-time query with one cumulation prefix applies the prefix to
\* the frame durations of each run and evaluates to the scalar of the last
\* run (0 with no runs); with no prefix it evaluates to the last frame
\* duration of the last run (0 if that run has no frames, 0 with no runs);
\* with runs [1,2] and [3,4], "sum frame-time" evaluates to 7.
C12_FrameTimeInnerCumulation ==
    /\ (QueryDone /\ Len(LastQuery) = 2 /\ LastQuery[2] = "frame-time"
           /\ LastQuery[1] \in Cumulations)
          => /\ pc = "end"
             /\ QueryValue = IF stats = <<>> THEN Zero
                             ELSE collect(Floats(stats[Len(stats)].frames),
                                          LastQuery[1]).value
             /\ LastQuery[1] = "sum" /\ stats # <<>>
                   => QueryValue = Rat(TicksSum(stats[Len(stats)].frames), 1)
             /\ (LastQuery[1] = "sum" /\ Len(stats) = 2
                    /\ stats[1].frames = <<1, 2>> /\ stats[2].frames = <<3, 4>>)
                   => QueryValue = Rat(7, 1)
    /\ (QueryDone /\ LastQuery = <<"frame-time">>)
          => /\ pc = "end"
             /\ QueryValue =
                   IF stats = <<>> THEN Zero
                   ELSE LET frames == stats[Len(stats)].frames
                        IN  IF frames = <<>> THEN Zero
                            ELSE Rat(frames[Len(frames)], 1)

\* "sum frame-time" was evaluated on the runs [1,2] and [3,4], to 7.
C12_Witness ==
    /\ QueryDone
    /\ pc = "end"
    /\ LastQuery = <<"sum", "frame-time">>
    /\ Len(stats) = 2
    /\ stats[1].frames = <<1, 2>>
    /\ stats[2].frames = <<3, 4>>
    /\ QueryValue = Rat(7, 1)

\* C13 as claimed: with no runs recorded, at the start or right after a
\* clear, a query over build-time with no prefix or with any one of the
\* recognized cumulation prefixes evaluates to 0.
C13_EmptyHistoryIsZero ==
    (QueryDone /\ stats = <<>>
        /\ Len(LastQuery) >= 1
        /\ LastQuery[Len(LastQuery)] = "build-time"
        /\ (Len(LastQuery) = 1 \/ (Len(LastQuery) = 2 /\ LastQuery[1] \in Cumulations)))
        => /\ pc = "end"
           /\ QueryValue = Zero

\* C14 as claimed: for build-time and for frame-time and for any history, a
\* query with a token before the variable that is not a recognized
\* cumulation name ends the process and evaluates to no number.
C14_UnknownCumulationIsFatal ==
    (QueryDone /\ Len(LastQuery) >= 2
        /\ LastQuery[Len(LastQuery)] \in {"build-time", "frame-time"}
        /\ \E i \in 1..(Len(LastQuery) - 1) : LastQuery[i] \notin Cumulations)
        => /\ pc = "exited"
           /\ output = <<>>

\* The tokens left unconsumed before the variable number more than one.
TooManyPrefixes(query) ==
    /\ Len(query) >= 1
    /\ \/ query[Len(query)] = "build-time" /\ Len(query) - 1 >= 2
       \/ query[Len(query)] = "frame-time" /\ Len(query) - 1 >= 3

\* C15 as claimed: such a query is the fatal error "too many cumulation
\* prefixes" for every history, and a query with no token or with an
\* unknown variable name is fatal.
C15_TooManyPrefixesIsFatal ==
    /\ (QueryDone /\ TooManyPrefixes(LastQuery))
          => /\ pc = "exited"
             /\ exitReason = "toomany"
    /\ (QueryDone /\ LastQuery = <<>>) => pc = "exited"
    /\ (QueryDone /\ Len(LastQuery) >= 1
           /\ LastQuery[Len(LastQuery)] \notin {"build-time", "frame-time"})
          => pc = "exited"

\* C15 amended: such a query is fatal for every history and evaluates to no
\* number; the error is "too many cumulation prefixes" except when the
\* token next to frame-time is not a recognized cumulation and the history
\* has a run, where the unknown cumulation is reported first; a query with
\* no token or with an unknown variable name is fatal.
C15_TooManyPrefixesFatalError ==
    /\ (QueryDone /\ TooManyPrefixes(LastQuery))
          => /\ pc = "exited"
             /\ output = <<>>
             /\ exitReason =
                   IF /\ LastQuery[Len(LastQuery)] = "frame-time"
                      /\ LastQuery[Len(LastQuery) - 1] \notin Cumulations
                      /\ stats # <<>>
                   THEN "cumulation" ELSE "toomany"
    /\ (QueryDone /\ LastQuery = <<>>)
          => pc = "exited" /\ exitReason = "novariable" /\ output = <<>>
    /\ (QueryDone /\ Len(LastQuery) >= 1
           /\ LastQuery[Len(LastQuery)] \notin {"build-time", "frame-time"})
          => pc = "exited" /\ exitReason = "variable" /\ output = <<>>

\* Three recognized prefixes before frame-time ended the process on a
\* history of two runs.
C15_Witness ==
    /\ QueryDone
    /\ pc = "exited"
    /\ exitReason = "toomany"
    /\ LastQuery = <<"sum", "sum", "sum", "frame-time">>
    /\ Len(stats) = 2

\* The element at index floor(n/2), counted from 0, of the ascending
\* arrangement of a non-empty sequence of integers: at most floor(n/2)
\* elements are below it and more than floor(n/2) are not above it.
UpperMiddle(vals) ==
    LET n == Len(vals)
    IN  CHOOSE v \in {vals[i] : i \in 1..n} :
           /\ Cardinality({i \in 1..n : vals[i] < v}) <= n \div 2
           /\ Cardinality({i \in 1..n : vals[i] <= v}) > n \div 2

\* Every sequence of up to four values out of 1..4.
MedianInputs == UNION {[1..n -> 1..4] : n \in 0..4}

\* C16: median is 0 on the empty sequence and otherwise the element at index
\* floor(n/2) of the ascending sort, the upper-middle one for even n;
\* median([1,2,3,4]) = 3, median([1,2,3]) = 2, median([]) = 0; evaluating it
\* leaves the sequence it is given, and the history, as they were.
C16_MedianUpperMiddle ==
    /\ \A vals \in MedianInputs :
          median(Floats(vals)) = IF vals = <<>> THEN Zero
                                 ELSE Rat(UpperMiddle(vals), 1)
    /\ median(Floats(<<1, 2, 3, 4>>)) = Rat(3, 1)
    /\ median(Floats(<<1, 2, 3>>)) = Rat(2, 1)
    /\ median(Floats(<<>>)) = Zero
    /\ []((QueryDone /\ LastQuery = <<"median", "frame-time">> /\ stats # <<>>)
             => LET frames == stats[Len(stats)].frames
                IN  /\ pc = "end"
                    /\ QueryValue = IF frames = <<>> THEN Zero
                                    ELSE Rat(UpperMiddle(frames), 1))
    /\ []((QueryDone /\ LastQuery = <<"median", "build-time">> /\ stats # <<>>)
             => /\ pc = "end"
                /\ QueryValue =
                      Rat(UpperMiddle([i \in 1..Len(stats) |-> stats[i].buildTime]), 1))
    /\ [][(mode = "stats" /\ pc = "cmd" /\ pc' # "cmd") => stats' = stats]_vars

\* "median frame-time" was evaluated on a run with the frames [1,2,3,4], to 3.
C16_Witness ==
    /\ QueryDone
    /\ pc = "end"
    /\ LastQuery = <<"median", "frame-time">>
    /\ Len(stats) >= 1
    /\ stats[Len(stats)].frames = <<1, 2, 3, 4>>
    /\ QueryValue = Rat(3, 1)

\* C17: in interactive mode the validity flag is true exactly when the
\* callable was compiled from the file at the active shader path and false
\* exactly when the fallback is the callable (at the start, after a failed
\* drop, after a failed reload); a failed load leaves the fallback installed,
\* never the shader active before it; the timing log is emitted only in a
\* frame that begins with the flag true.
C17_ValidIffRequestedActive ==
    /\ []((mode = "interactive" /\ pc \notin {"start", "exited"})
             => /\ valid <=> (activeShaderPath # "" /\ entryPointFunc = activeShaderPath)
                /\ ~valid <=> entryPointFunc = fallbackSource.name
                /\ pc = "present" => (dispatched = fallbackSource.name <=> ~valid))
    /\ []((mode = "interactive" /\ lastLoad.kind \in {"init", "drop", "reload"}
              /\ lastLoad.status = "failed")
             => /\ entryPointFunc = fallbackSource.name
                /\ ~valid)
    /\ [][(mode = "interactive" /\ pc = "frame" /\ pc' = "poll")
             => (logged' <=> valid)]_vars
    /\ [][UNCHANGED pc => UNCHANGED logged]_vars

\* A frame begins without the timing log after a drop that failed while
\* another shader was active.
C17_Witness ==
    /\ mode = "interactive"
    /\ pc = "poll"
    /\ ~logged
    /\ ~valid
    /\ activeShaderPath = "a.slang"
    /\ presented = fallbackSource.name
    /\ files["a.slang"].kind = "slang"
    /\ files["a.slang"].mtime = 0

\* The framebuffer after the sequential row-major dispatch over an aligned
\* width x height with the pitch equal to the width: each pixel holds the
\* color of its own thread.
SequentialFramebuffer(width, height) ==
    [i \in 0..(width * height - 1) |->
        PixelColor([x |-> i % width, y |-> i \div width], height)]

\* C18: for a width and a height that are multiples of 8, with the pitch
\* equal to the width, the framebuffer after a parallel dispatch is the same
\* whatever the order the tile tasks ran in and equals the framebuffer after
\* the sequential dispatch; the framebuffer is handed to presentation only
\* when every tile task has completed.
C18_ParallelEqualsSequential ==
    /\ []((mode = "dispatch" /\ pc = "joined"
              /\ surf.w % DISPATCH_TILE_SIZE = 0 /\ surf.h % DISPATCH_TILE_SIZE = 0
              /\ pitch = surf.w)
             => framebuffer = SequentialFramebuffer(surf.w, surf.h))
    /\ []((mode = "dispatch" /\ presented # "none")
             => /\ pendingTiles = {}
                /\ DOMAIN invocations = TileGrid(surf.w, surf.h))
    /\ [][(mode = "dispatch" /\ presented' # presented)
             => /\ UNCHANGED framebuffer
                /\ pendingTiles = {}
                /\ DOMAIN invocations = TileGrid(surf.w, surf.h)]_vars

\* A parallel dispatch over 16 x 16, four tile tasks, has been joined and
\* handed to presentation.
C18_Witness ==
    /\ mode = "dispatch"
    /\ pc = "joined"
    /\ multithreaded
    /\ surf = [w |-> 16, h |-> 16]
    /\ presented # "none"
    /\ Cardinality(DOMAIN invocations) = 4
    /\ framebuffer = SequentialFramebuffer(16, 16)

\* A forced delta is in effect: the last framerate command gave a positive
\* finite delta.
DeltaForced == forcedDeltaTime.tag = "rat" /\ forcedDeltaTime.n > 0

\* t is the forced delta in whole nanosecond ticks: the integer nearest to
\* forcedDeltaTime * 10^9.
IsDeltaInTicks(t) ==
    2 * Abs(t * forcedDeltaTime.d - 1000000000 * forcedDeltaTime.n) <= forcedDeltaTime.d

\* C19: in a benchmark run the frame index starts at 0 and goes up by one
\* per dispatch to frameCount - 1; with a forced delta d > 0 the time of
\* frame k is k times d in whole nanosecond ticks, 0 for frame 0, whatever
\* the measured times; with no framerate set or a negative one the time is
\* the sum of the measured elapsed ticks, 0 for frame 0 and non-decreasing.
C19_FrameIndexAndTime ==
    /\ []((mode = "benchmark" /\ pc = "run")
             => /\ paramsFrame \in 0..Max0(frameCount)
                /\ Len(run.frames) = paramsFrame
                /\ paramsFrame = 1 => paramsTime = 0
                /\ (paramsFrame > 1 /\ DeltaForced)
                      => /\ paramsTime % (paramsFrame - 1) = 0
                         /\ IsDeltaInTicks(paramsTime \div (paramsFrame - 1))
                /\ (paramsFrame > 1 /\ ~DeltaForced /\ forcedDeltaTime.tag = "rat")
                      => /\ paramsTime = cumulatedTicks
                         /\ paramsTime >= paramsFrame - 1
                         /\ paramsTime >= TicksSum(SubSeq(run.frames, 1, paramsFrame - 1)))
    /\ [][(mode = "benchmark" /\ pc = "cmd" /\ pc' = "run") => paramsFrame' = 0]_vars
    /\ [][(mode = "benchmark" /\ pc = "run" /\ pc' = "run" /\ paramsFrame' # paramsFrame)
             => /\ paramsFrame < frameCount
                /\ paramsFrame' = paramsFrame + 1
                /\ dispatched' = entryPointFunc
                /\ paramsFrame > 0 => paramsTime' >= paramsTime
                /\ (paramsFrame > 0 /\ DeltaForced)
                      => IsDeltaInTicks(paramsTime' - paramsTime)
                /\ (paramsFrame > 0 /\ ~DeltaForced /\ forcedDeltaTime.tag = "rat")
                      => paramsTime' - paramsTime \in Durations
                /\ UNCHANGED <<forcedDeltaTime, frameCount>>]_vars
    /\ [][(mode = "benchmark" /\ pc = "run" /\ pc' = "cmd")
             => paramsFrame = Max0(frameCount)]_vars

\* After `framerate 3` the third frame of a run was dispatched at twice the
\* forced delta, 2 * 333333333 ticks.
C19_Witness ==
    /\ mode = "benchmark"
    /\ pc = "run"
    /\ commandList[1] = Cmd("framerate", <<"3">>)
    /\ paramsFrame = 3
    /\ frameCount = 3
    /\ paramsTime = 666666666

\* The flag the most recent multithreading command among the first i lines
\* asked for, TRUE (parallel) when there is none.
RECURSIVE FlagAsked(_, _)
FlagAsked(lines, i) ==
    IF i = 0 THEN TRUE
    ELSE IF lines[i].op = "multithreading" THEN lines[i].args[1] \in {"on", "true"}
    ELSE FlagAsked(lines, i - 1)

\* The argument of the most recent framerate command among the first i
\* lines, "none" when there is none.
RECURSIVE FramerateAsked(_, _)
FramerateAsked(lines, i) ==
    IF i = 0 THEN "none"
    ELSE IF lines[i].op = "framerate" THEN lines[i].args[1]
    ELSE FramerateAsked(lines, i - 1)

\* The line being executed, or executed last.
LineRead == commandList'[Len(commandList')]

\* C20: a run uses the forced delta and the dispatch flag of the most recent
\* framerate and multithreading commands before it (by default the measured
\* time and the parallel dispatch; an argument other than on or true asks
\* for the sequential dispatch); clear changes the history only; print, run,
\* resolution, comments and blank lines leave the delta and the flag alone.
C20_RunUsesLatestSettings ==
    /\ []((mode = "benchmark" /\ pc \in {"cmd", "run"})
             => LET hz == FramerateAsked(commandList, Len(commandList))
                IN  /\ multithreaded = FlagAsked(commandList, Len(commandList))
                    /\ hz = "none" => ~DeltaForced /\ forcedDeltaTime = Rat(-1, 1)
                    /\ hz # "none" =>
                          /\ Mul(forcedDeltaTime, Rat(readDouble(hz).d, 10)) = Rat(1, 1)
                          /\ DeltaForced <=> readDouble(hz).d > 0)
    /\ [][(mode = "benchmark" /\ pc = "run" /\ paramsFrame' # paramsFrame)
             => LET parallel == FlagAsked(commandList, Len(commandList))
                IN  /\ tileY' = IF parallel THEN 0 ELSE CeilDiv(surf.h, 8)
                    /\ (paramsFrame > 0 /\ DeltaForced)
                          => IsDeltaInTicks(paramsTime' - paramsTime)
                    /\ (paramsFrame > 0 /\ ~DeltaForced)
                          => paramsTime' - paramsTime = run.frames[paramsFrame]
                    /\ UNCHANGED <<forcedDeltaTime, multithreaded>>]_vars
    /\ [][(mode = "benchmark" /\ pc = "cmd" /\ commandList' # commandList
              /\ LineRead.op = "clear" /\ pc' = "cmd")
             => /\ stats' = <<>>
                /\ UNCHANGED <<forcedDeltaTime, multithreaded, surf, entryPointFunc,
                               output, files, paramsFrame, paramsTime>>]_vars
    /\ [][(mode = "benchmark" /\ commandList' # commandList
              /\ LineRead.op \in {"print", "run", "resolution", "#", ""})
             => UNCHANGED <<forcedDeltaTime, multithreaded>>]_vars
    /\ [][(mode = "benchmark" /\ pc = "run") => UNCHANGED <<forcedDeltaTime, multithreaded>>]_vars

\* After `multithreading off` and `framerate 3`, the second frame of a run
\* was dispatched sequentially over the 90 tile rows of 1280 x 720, one
\* forced delta after the first.
C20_Witness ==
    /\ mode = "benchmark"
    /\ pc = "run"
    /\ commandList = <<Cmd("multithreading", <<"off">>), Cmd("framerate", <<"3">>),
                       Cmd("run", <<"a.slang", "3.5">>)>>
    /\ paramsFrame = 2
    /\ tileY = 90
    /\ paramsTime = 333333333

(***************************************************************************)
(* C21                                                                     *)
(***************************************************************************)
\* The step takes the event at the head of the queue.
Polled == events # <<>> /\ events' = Tail(events)

\* The step leaves the loop for the end label.
QuitActedOn == pc # "end" /\ pc' = "end"

\* C21: in interactive mode a quit event (SDL_EVENT_QUIT or the Q key) is
\* acted on only in the polling step between frames. The loop is left only
\* by the step that polls a quit event, with no dispatch under way and every
\* dispatched frame presented, and that step compiles, dispatches and
\* presents nothing; polling a quit event always leaves the loop; after it
\* nothing changes any more, so the events queued behind the quit are never
\* processed and no further frame is compiled, dispatched or presented. A
\* dispatch that has started goes on through its tiles to the barrier only
\* when none is pending, then to the presentation, and only then back to the
\* top of the loop, whatever is queued meanwhile; and under the fair
\* scheduling of the tiles it does get there.
C21_QuitOnlyBetweenFrames ==
    /\ [][/\ QuitActedOn =>
                /\ pc = "poll"
                /\ Polled /\ IsQuit(Head(events))
                /\ pendingTiles = {} /\ presented = dispatched
                /\ UNCHANGED <<entryPointFunc, dispatched, presented, framebuffer,
                               invocations, activeShaderPath, valid>>
          /\ (pc = "poll" /\ Polled /\ IsQuit(Head(events))) => pc' = "end"
          /\ pc = "end" => FALSE
          /\ pc = "tiles" =>
                /\ pc' \in {"tiles", "present"}
                /\ pc' = "present" => pendingTiles = {}
                /\ UNCHANGED <<dispatched, presented>>
          /\ pc = "present" =>
                /\ pc' \in {"present", "frame"}
                /\ pc' = "frame" => presented' = dispatched /\ UNCHANGED dispatched
         ]_vars
    /\ (pc = "tiles") ~> (pc = "frame" /\ presented = dispatched /\ pendingTiles = {})

\* Reached: the loop was left with an event still queued behind the quit,
\* after a frame whose tiles all ran was presented.
C21_Witness ==
    /\ mode = "interactive" /\ pc = "end"
    /\ events # <<>>
    /\ presented # "none" /\ presented = dispatched
    /\ DOMAIN invocations = TileGrid(surf.w, surf.h)

====
